---- MODULE Spec2Model ----
(***************************************************************************)
(* Kage Scan: the page-processing pipeline of backend/app/routers/         *)
(* pipeline.py (start_pipeline, process_project_task, _process_page) with  *)
(* the OCR and translation adapters it calls, over a committed database of *)
(* one project's status, its pages' statuses and their TextBlocks.         *)
(*                                                                         *)
(* A background run owns a SQLAlchemy session (expire_on_commit=False): it *)
(* reads the database once, when it loads the project, and afterwards only *)
(* writes.  A commit emits an UPDATE for an attribute only when the value  *)
(* set differs from the value the session holds for it, so every run       *)
(* carries the values its session holds (task[t].project, task[t].pages).  *)
(* Every await of a run that touches the database is one step; the         *)
(* detector, OCR and translator calls between two commits read and write   *)
(* no database state and belong to the step of the commit that follows.    *)
(* A commit may fail (it raises, the transaction is rolled back and the    *)
(* database keeps its last committed state).                               *)
(***************************************************************************)
EXTENDS Integers, Sequences, FiniteSets, TLC

\* ---------------------------------------------------------------- bounds
\* Background runs that can be accepted in one behaviour.
MaxTasks == 2
\* Pages of the project (page_number 1..NumPages).
NumPages == 2
\* Regions the detector can return for one page.
MaxRegions == 3
\* Pages of a project that is exported on its own.
MaxExportPages == 3
\* Bounding boxes given to one call of _create_mask.
MaxMaskBoxes == 2
\* Regions the detector finds in one page image.
MaxCandidates == 3

\* The widest column band tried when a list is tested for the banded
\* reading order.
MaxBandWidth == 4
\* Texts given to one call of translate_batch.
MaxTexts == 3
\* Tagged lines in one answer of the LLM to a combined request.
MaxAnswerLines == 3

\* The worker threads that run the detector at one time.
MaxThreads == 3

\* The calls of export_project in progress at one time.
MaxCalls == 2

\* The longest text laid out.
MaxChars == 3

Tasks == 1..MaxTasks
Pages == 1..NumPages

\* "P1" is the project that exists, "P0" an id no project has.
ProjectIds == {"P0", "P1"}
Absent == "absent"

ProjectStatuses == {"processing", "ready", "exported", "error"}
PageStatuses == {"pending", "processing", "ocr_done", "translated", "done", "error"}

Backends == {"manga_ocr", "easyocr", "tesseract", "placeholder"}
Langs == {"ja", "ko"}

\* ------------------------------------------------------------------ text
\* A text is a sequence of tokens; a number is written in decimal.
DigitChars == <<"0", "1", "2", "3", "4", "5", "6", "7", "8", "9">>

RECURSIVE str(_)
str(n) ==
    IF n < 10 THEN <<DigitChars[n + 1]>>
    ELSE str(n \div 10) \o <<DigitChars[(n % 10) + 1]>>

\* ------------------------------------------------------------- detection
\* The i-th region of a page image: {0,0,20,20}, {10,10,20,20}, ...
Region(i) == [x |-> 10 * (i - 1), y |-> 10 * (i - 1), w |-> 20, h |-> 20]

\* What one call of detector.detect can do: raise, or return n regions.
DetectorOutcomes ==
    {[raised |-> TRUE, bboxes |-> <<>>]} \cup
    {[raised |-> FALSE, bboxes |-> [i \in 1..n |-> Region(i)]] : n \in 0..MaxRegions}

\* _process_page, step A: a detector exception is zero regions.
detect(d) == IF d.raised THEN <<>> ELSE d.bboxes

\* ------------------------------------------------------------------- OCR
\* What a backend call can do: raise, return only whitespace, return text.
OcrCalls == {"RAISE", "EMPTY", "TEXT"}
\* The calls one extract_text can make with a backend: the call of the
\* backend, and the retry the tesseract runner makes with lang="eng" when
\* its first call raised (second repeats first when there is no retry; the
\* placeholder backend calls nothing that can fail).
OcrOutcomes(backend) ==
    {o \in [first : OcrCalls, second : OcrCalls] :
        /\ (backend = "tesseract" /\ o.first = "RAISE") \/ o.second = o.first
        /\ backend = "placeholder" => o.first = "TEXT"}

\* The text a backend reads in a region (the runners return text.strip()).
RegionText(bbox) == <<"ocr">> \o str(bbox.x)
RunnerText(call, bbox) == IF call = "TEXT" THEN RegionText(bbox) ELSE <<>>

\* f"[<text> {x},{y}]": the placeholder of _ocr_placeholder_sync and of the
\* handler of extract_text.
_ocr_placeholder_sync(bbox) ==
    <<"[text">> \o str(bbox.x) \o <<",">> \o str(bbox.y) \o <<"]">>

_ocr_tesseract_sync(bbox, o) ==
    IF o.first # "RAISE" THEN [raised |-> FALSE, text |-> RunnerText(o.first, bbox)]
    ELSE IF o.second # "RAISE" THEN [raised |-> FALSE, text |-> RunnerText(o.second, bbox)]
    ELSE [raised |-> TRUE, text |-> <<>>]

\* A mutant of extract_text: a backend failure is recovered as empty text.
extract_text_empty_on_failure(backend, source_lang, bbox, o) ==
    IF backend = "placeholder" THEN _ocr_placeholder_sync(bbox)
    ELSE IF backend = "tesseract"
    THEN _ocr_tesseract_sync(bbox, o).text
    ELSE RunnerText(o.first, bbox)

extract_text(backend, source_lang, bbox, o) ==
    IF backend = "manga_ocr" /\ source_lang = "ja"
    THEN IF o.first = "RAISE" THEN _ocr_placeholder_sync(bbox)
         ELSE RunnerText(o.first, bbox)
    ELSE IF backend = "easyocr"
    THEN IF o.first = "RAISE" THEN _ocr_placeholder_sync(bbox)
         ELSE RunnerText(o.first, bbox)
    ELSE IF backend = "tesseract"
    THEN IF _ocr_tesseract_sync(bbox, o).raised THEN _ocr_placeholder_sync(bbox)
         ELSE _ocr_tesseract_sync(bbox, o).text
    ELSE IF backend = "manga_ocr" /\ source_lang # "ja"
    THEN IF o.first = "RAISE" THEN _ocr_placeholder_sync(bbox)
         ELSE RunnerText(o.first, bbox)
    ELSE _ocr_placeholder_sync(bbox)

\* ----------------------------------------------------------- translation
\* What one _call_llm can do for a single text.
LlmCalls == {"RAISE", "OK"}
\* The model's translation of a text.
Translation(text) == <<"pt">> \o text
\* f"[ERRO] {text}"
Sentinel(text) == <<"[ERRO]">> \o text

translate_text(text, call) ==
    IF text = <<>> THEN <<>>
    ELSE IF call = "RAISE" THEN Sentinel(text)
    ELSE Translation(text)

\* re.search(rf"\[{i}\]\s*(.+)", raw): the first line tagged i.
RECURSIVE TaggedLine(_, _, _)
TaggedLine(lines, i, k) ==
    IF k > Len(lines) THEN 0
    ELSE IF lines[k].tag = i THEN k
    ELSE TaggedLine(lines, i, k + 1)

\* A mutant of translate_batch: a text whose translation failed is left out
\* of the result instead of being replaced by its sentinel.
translate_batch_drop_failed(texts, llm) ==
    IF Len(texts) <= 2
    THEN SelectSeq([i \in 1..Len(texts) |-> translate_text(texts[i], llm.calls[i])],
                   LAMBDA x : x = <<>> \/ Head(x) # "[ERRO]")
    ELSE IF llm.raw.raised THEN <<>>
    ELSE [k \in 1..Len(llm.raw.lines) |-> llm.raw.lines[k].body]

\* A line of the answer as it is written: f"[{tag}] {body}".
Rendered(line) == <<"[">> \o str(line.tag) \o <<"]">> \o line.body

\* The group (.+) of the pattern matched at the tag of line k: the text
\* that follows the tag on its line; when no text follows, \s* runs over
\* the line break and the group is the next line, tag included; <<>> when
\* the pattern does not match there.
Captured(lines, k) ==
    IF lines[k].body # <<>> THEN lines[k].body
    ELSE IF k < Len(lines) THEN Rendered(lines[k + 1])
    ELSE <<>>

\* A mutant of translate_batch: one entry per line of the answer.
translate_batch_one_per_line(texts, llm) ==
    IF texts = <<>> THEN <<>>
    ELSE IF Len(texts) <= 2
    THEN [i \in 1..Len(texts) |-> translate_text(texts[i], llm.calls[i])]
    ELSE IF llm.raw.raised
    THEN [i \in 1..Len(texts) |-> Sentinel(texts[i])]
    ELSE [k \in 1..Len(llm.raw.lines) |-> Captured(llm.raw.lines, k)]

\* A mutant of translate_batch: the i-th entry is read from the i-th line
\* of the answer.
translate_batch_positional(texts, llm) ==
    IF texts = <<>> THEN <<>>
    ELSE IF Len(texts) <= 2
    THEN [i \in 1..Len(texts) |-> translate_text(texts[i], llm.calls[i])]
    ELSE IF llm.raw.raised
    THEN [i \in 1..Len(texts) |-> Sentinel(texts[i])]
    ELSE [i \in 1..Len(texts) |->
            IF i <= Len(llm.raw.lines) /\ Captured(llm.raw.lines, i) # <<>>
            THEN Captured(llm.raw.lines, i)
            ELSE Sentinel(texts[i])]

\* llm.calls[i] is what the i-th single call does, llm.raw what the one
\* combined call does: raise, or answer with tagged lines.
translate_batch(texts, llm) ==
    IF texts = <<>> THEN <<>>
    ELSE IF Len(texts) <= 2
    THEN [i \in 1..Len(texts) |-> translate_text(texts[i], llm.calls[i])]
    ELSE IF llm.raw.raised
    THEN [i \in 1..Len(texts) |-> Sentinel(texts[i])]
    ELSE [i \in 1..Len(texts) |->
            IF TaggedLine(llm.raw.lines, i, 1) # 0
               /\ Captured(llm.raw.lines, TaggedLine(llm.raw.lines, i, 1)) # <<>>
            THEN Captured(llm.raw.lines, TaggedLine(llm.raw.lines, i, 1))
            ELSE Sentinel(texts[i])]

\* The tagged lines of an answer that holds the tags of S, ascending.
RECURSIVE AnswerLines(_, _, _)
AnswerLines(texts, S, i) ==
    IF i > Len(texts) THEN <<>>
    ELSE (IF i \in S THEN <<[tag |-> i, body |-> Translation(texts[i])]>> ELSE <<>>)
         \o AnswerLines(texts, S, i + 1)

Reverse(s) == [i \in 1..Len(s) |-> s[Len(s) + 1 - i]]

NoAnswer == [raised |-> TRUE, lines |-> <<>>]

\* What the LLM can do during one translate_batch(texts).
LlmBehaviours(texts) ==
    IF Len(texts) <= 2
    THEN {[calls |-> c, raw |-> NoAnswer] : c \in [1..Len(texts) -> LlmCalls]}
    ELSE {[calls |-> <<>>, raw |-> r] :
            r \in {NoAnswer}
                  \cup {[raised |-> FALSE, lines |-> AnswerLines(texts, S, 1)] :
                            S \in SUBSET (1..Len(texts))}
                  \cup {[raised |-> FALSE,
                         lines |-> Reverse(AnswerLines(texts, 1..Len(texts), 1))]}}

\* The environment of a specification: what the detector, the OCR backends
\* and the LLM may do.  AnyEnv is every behaviour; CalmEnv is the part of it
\* the server specification explores (the detector finds fewer than
\* MaxRegions regions, so the texts of a page are translated one call each;
\* a backend returns text or whitespace, the retry like the first call; the
\* LLM answers every text or none), which reaches every branch of the
\* pipeline that decides a status.
AnyEnv == [detector |-> DetectorOutcomes, ocr |-> OcrCalls, all_or_nothing |-> FALSE]
CalmEnv == [detector |-> {d \in DetectorOutcomes : Len(d.bboxes) < MaxRegions},
            ocr |-> OcrCalls \ {"RAISE"},
            all_or_nothing |-> TRUE]

\* The behaviour answers every text of the batch, or none.
AllOrNothing(texts, llm) ==
    \/ \A i \in 1..Len(texts) : translate_batch(texts, llm)[i] = Sentinel(texts[i])
    \/ \A i \in 1..Len(texts) : translate_batch(texts, llm)[i] = Translation(texts[i])

EnvOcr(env, backend) == {o \in OcrOutcomes(backend) : o.first \in env.ocr}

EnvLlm(env, texts) ==
    {llm \in LlmBehaviours(texts) : env.all_or_nothing => AllOrNothing(texts, llm)}

\* ----------------------------------------------------------------- state
VARIABLES
    project_status,   \* committed Project.status per project id, or Absent
    source_language,  \* Project.source_language of P1
    page_status,      \* committed Page.status of each page of P1
    text_blocks,      \* committed TextBlocks of each page of P1, in insertion order
    task,             \* the background runs (process_project_task)
    ocr_backend,      \* OcrEngine._backend: "None" until first selected
    available,        \* the backend _detect_backend finds in this installation
    response,         \* the last HTTP response of a handler
    files,            \* the files on disk under DATA_DIR, but for the archive
    archive,          \* the ZIP archive of P1 under DATA_DIR/exports
    img_shape,        \* _create_mask: <<height, width>> of the image
    mask_bboxes,      \* _create_mask: the bounding boxes it is given
    mask,             \* _create_mask: the mask it returned
    detector_model,   \* TextDetector._model: "None" until loaded
    candidates,       \* the regions the detector finds in the page image
    detected,         \* the last return of TextDetector._detect_sync
    ocr_call,         \* the last call of OcrEngine.extract_text
    layout,           \* the call of _auto_font_size in progress
    batch,            \* the last call of Translator.translate_batch
    threads,          \* the worker threads inside TextDetector._detect_sync
    exports           \* the calls of export_project in progress

vars == <<project_status, source_language, page_status, text_blocks, task,
          ocr_backend, available, response, files, archive,
          img_shape, mask_bboxes, mask,
          detector_model, candidates, detected, ocr_call, layout, batch,
          threads, exports>>

disk == <<files, archive>>

masking == <<img_shape, mask_bboxes, mask>>

\* No mask has been built.
NoMask == [built |-> FALSE, shape |-> <<0, 0>>, erase |-> {}]

NoMasking ==
    /\ img_shape = <<0, 0>>
    /\ mask_bboxes = <<>>
    /\ mask = NoMask

detection == <<detector_model, candidates, detected>>

\* _detect_sync has not been called.
NotDetected == [done |-> FALSE, raised |-> FALSE, by |-> "none", bboxes |-> <<>>]

NoDetection ==
    /\ detector_model = "None"
    /\ candidates = <<>>
    /\ detected = NotDetected

\* extract_text has not been called.
NoOcrCall == [region |-> 0, o |-> [first |-> "TEXT", second |-> "TEXT"],
              raised |-> FALSE, text |-> <<>>, called |-> <<>>]

\* _auto_font_size has not been called.
NoLayout == [pc |-> "idle"]

\* translate_batch has not been called.
NoBatch == [called |-> FALSE, texts |-> <<>>,
            llm |-> [calls |-> <<>>, raw |-> [raised |-> TRUE, lines |-> <<>>]],
            requests |-> <<>>, result |-> <<>>]

\* The state that the pipeline and the export do not touch.
WorkerThreads == 1..MaxThreads

\* No worker thread is inside the detector; no model was constructed.
NoThreads == [pc |-> [w \in WorkerThreads |-> "idle"],
              held |-> [w \in WorkerThreads |-> "None"],
              loads |-> 0]

\* The calls of export_project that can be in progress at one time.
Callers == 1..MaxCalls

\* A file name of the project directory: its stem without the "_cleaned"
\* endings, and the number of "_cleaned" endings it carries (every image
\* has the same suffix).
Stems == {"a", "b"}
DirNames == Stems \X (0..2)

\* The file names an upload can give the pages: "a", "a_cleaned", "b".
PageNames == {<<"a", 0>>, <<"a", 1>>, <<"b", 0>>}

\* The content of a file of the project directory: the upload of page p,
\* the image the inpainter wrote for page p, or no file.
Missing == <<"missing", 0>>
Source(p) == <<"source", p>>
Inpainted(p) == <<"cleaned", p>>

\* No ZIP file.
NoZip == [exists |-> FALSE, names |-> {}]

\* A call of export_project that has not been made.
NoCall == [pc |-> "idle", page |-> 0, rendered |-> {}, archive |-> NoZip]

\* The project directory after the upload of pages named names.
Uploaded(names) ==
    [n \in DirNames |->
        IF \E p \in Pages : names[p] = n
        THEN Source(CHOOSE p \in Pages : names[p] = n)
        ELSE Missing]

\* The pages named names, those of has_blocks with text blocks, before
\* any export: no export directory content, no ZIP.
Project(names, has_blocks) ==
    [names |-> names, blocks |-> has_blocks, dir |-> Uploaded(names),
     out |-> {}, zip |-> NoZip, call |-> [c \in Callers |-> NoCall]]

\* No export is in progress.
NoExports ==
    Project([p \in Pages |-> <<"b", 0>>], [p \in Pages |-> FALSE])

apart == <<threads, exports>>

NoApart ==
    /\ threads = NoThreads
    /\ exports = NoExports

aside == <<masking, detection, ocr_call, layout, batch, apart>>

NoAside ==
    /\ NoMasking
    /\ NoDetection
    /\ ocr_call = NoOcrCall
    /\ layout = NoLayout
    /\ batch = NoBatch
    /\ NoApart

\* A file is <<where it is, the page it belongs to, what it shows>>.  The
\* files of page p: the uploaded image, the image _inpaint_sync writes next
\* to it ("<stem>_cleaned<suffix>") and the rendered image in the export
\* directory of the project, which shows what it was made from.
SourceImage(p) == <<"image", p, "source">>
CleanedImage(p) == <<"cleaned", p, "cleaned">>
OutputImage(p, shown) == <<"export", p, shown>>

\* typesetter.render_text draws the blocks on the image at path.
Typeset(path) == "typeset"
\* shutil.copy2 copies the image at path.
Copied(path) == path[3]

NoArchive == [exists |-> FALSE, names |-> {}]

db == <<project_status, source_language, page_status, text_blocks>>

NoTask ==
    [pc |-> "idle", project_id |-> "P0", project |-> "unbound",
     pages |-> [p \in Pages |-> "pending"], page |-> 0, ocr_results |-> <<>>,
     result |-> "none"]

NoResponse == [op |-> "none", project_id |-> "P0", code |-> 0]

\* The state after create_project committed P1 with NumPages pages.
InitDb ==
    /\ project_status = [id \in ProjectIds |-> IF id = "P1" THEN "ready" ELSE Absent]
    /\ page_status = [p \in Pages |-> "pending"]
    /\ text_blocks = [p \in Pages |-> <<>>]
    /\ ocr_backend = "None"
    /\ response = NoResponse
    /\ files = {SourceImage(p) : p \in Pages}
    /\ archive = NoArchive
    /\ NoAside

Init ==
    /\ InitDb
    /\ source_language = "ja"
    /\ available = "manga_ocr"
    /\ task = [t \in Tasks |-> NoTask]

\* ------------------------------------------------------------- session
\* session.commit(): an UPDATE is emitted only for an attribute whose new
\* value differs from the value the session holds.
Flush(committed, held, new) == IF new = held THEN committed ELSE new

Finished(tk, result) ==
    [NoTask EXCEPT !.pc = "finished", !.project_id = tk.project_id, !.result = result]

\* The except branch of process_project_task is entered (line 70).
Raise(tk) == [tk EXCEPT !.pc = "except"]

\* A mutant of NextPage: the loop ends one page early.
NextPage_off_by_one(tk, k) ==
    [tk EXCEPT !.pc = IF k >= NumPages THEN "ready" ELSE "page",
               !.page = k, !.ocr_results = <<>>]

\* A mutant of NextPage: the loop takes the page it has just left again.
NextPage_same_page(tk, k) ==
    [tk EXCEPT !.pc = IF k > NumPages THEN "ready" ELSE "page",
               !.page = IF k > 1 THEN k - 1 ELSE k, !.ocr_results = <<>>]

\* The for loop of process_project_task moves on to page k.
NextPage(tk, k) ==
    [tk EXCEPT !.pc = IF k > NumPages THEN "ready" ELSE "page",
               !.page = k, !.ocr_results = <<>>]

\* --------------------------------------------------------- start_pipeline
Accepted(project_id) == [op |-> "start", project_id |-> project_id, code |-> 202]
NotFound(project_id) == [op |-> "start", project_id |-> project_id, code |-> 404]
Conflict(project_id) == [op |-> "start", project_id |-> project_id, code |-> 409]

\* The slot background_tasks.add_task fills: the first run not yet used.
FreeTask == CHOOSE t \in Tasks : task[t].pc = "idle" /\ \A u \in 1..(t - 1) : task[u].pc # "idle"

Queued(project_id) == [NoTask EXCEPT !.pc = "queued", !.project_id = project_id]

\* A mutant of start_pipeline: the handler itself commits "processing"
\* when it accepts.
start_pipeline_marks_processing(project_id) ==
    IF project_status[project_id] = Absent
    THEN /\ response' = NotFound(project_id)
         /\ UNCHANGED <<db, task, ocr_backend, available>>
    ELSE IF project_status[project_id] = "processing"
    THEN /\ response' = Conflict(project_id)
         /\ UNCHANGED <<db, task, ocr_backend, available>>
    ELSE /\ \E t \in Tasks : task[t].pc = "idle"
         /\ task' = [task EXCEPT ![FreeTask] = Queued(project_id)]
         /\ response' = Accepted(project_id)
         /\ project_status' = [project_status EXCEPT ![project_id] = "processing"]
         /\ UNCHANGED <<source_language, page_status, text_blocks, ocr_backend, available>>

\* A mutant of start_pipeline: the status gate is missing.
start_pipeline_no_gate(project_id) ==
    IF project_status[project_id] = Absent
    THEN /\ response' = NotFound(project_id)
         /\ UNCHANGED <<db, task, ocr_backend, available>>
    ELSE /\ \E t \in Tasks : task[t].pc = "idle"
         /\ task' = [task EXCEPT ![FreeTask] = Queued(project_id)]
         /\ response' = Accepted(project_id)
         /\ UNCHANGED <<db, ocr_backend, available>>

\* POST /pipeline/{project_id}/start
start_pipeline(project_id) ==
    IF project_status[project_id] = Absent
    THEN /\ response' = NotFound(project_id)
         /\ UNCHANGED <<db, task, ocr_backend, available>>
    ELSE IF project_status[project_id] = "processing"
    THEN /\ response' = Conflict(project_id)
         /\ UNCHANGED <<db, task, ocr_backend, available>>
    ELSE /\ \E t \in Tasks : task[t].pc = "idle"
         /\ task' = [task EXCEPT ![FreeTask] = Queued(project_id)]
         /\ response' = Accepted(project_id)
         /\ UNCHANGED <<db, ocr_backend, available>>

\* --------------------------------------------------- process_project_task
\* Lines 33-45: the session loads the project with its pages (ok: the
\* query does not raise).
load(t, ok) ==
    LET tk == task[t] IN
    /\ tk.pc = "queued"
    /\ task' = [task EXCEPT ![t] =
            IF ~ok THEN Raise(tk)
            ELSE IF project_status[tk.project_id] = Absent
            THEN Finished(tk, "not_found")
            ELSE [tk EXCEPT !.pc = "loaded",
                            !.project = project_status[tk.project_id],
                            !.pages = page_status]]
    /\ UNCHANGED <<db, ocr_backend, available, response>>

\* Lines 47-48: project.status = "processing"; commit (ok: the commit does
\* not raise).
mark_processing(t, ok) ==
    LET tk == task[t] IN
    /\ tk.pc = "loaded"
    /\ IF ok
       THEN /\ project_status' = [project_status EXCEPT
                   ![tk.project_id] = Flush(@, tk.project, "processing")]
            /\ task' = [task EXCEPT ![t] =
                   NextPage([tk EXCEPT !.project = "processing"], 1)]
       ELSE /\ task' = [task EXCEPT ![t] = Raise(tk)]
            /\ UNCHANGED project_status
    /\ UNCHANGED <<source_language, page_status, text_blocks, ocr_backend,
                   available, response>>

\* A mutant of page_start: the page is reset to "pending" and processed
\* from there.
page_start_from_pending(t, ok) ==
    LET tk == task[t]
        p == tk.page
    IN
    /\ tk.pc = "page"
    /\ IF ok
       THEN /\ page_status' = [page_status EXCEPT
                   ![p] = Flush(@, tk.pages[p], "pending")]
            /\ task' = [task EXCEPT ![t] =
                   [tk EXCEPT !.pc = "detect", !.pages[p] = "pending"]]
       ELSE /\ task' = [task EXCEPT ![t] = Raise(tk)]
            /\ UNCHANGED page_status
    /\ UNCHANGED <<project_status, source_language, text_blocks, ocr_backend,
                   available, response>>

\* _process_page, lines 91-92: page.status = "processing"; commit.
page_start(t, ok) ==
    LET tk == task[t]
        p == tk.page
    IN
    /\ tk.pc = "page"
    /\ IF ok
       THEN /\ page_status' = [page_status EXCEPT
                   ![p] = Flush(@, tk.pages[p], "processing")]
            /\ task' = [task EXCEPT ![t] =
                   [tk EXCEPT !.pc = "detect", !.pages[p] = "processing"]]
       ELSE /\ task' = [task EXCEPT ![t] = Raise(tk)]
            /\ UNCHANGED page_status
    /\ UNCHANGED <<project_status, source_language, text_blocks, ocr_backend,
                   available, response>>

\* OcrEngine._detect_backend: selected on first use, then reused.
_detect_backend == IF ocr_backend = "None" THEN available ELSE ocr_backend

\* Lines 111-118: the regions whose OCR text is not empty.
OcrResults(bboxes, os) ==
    SelectSeq([i \in 1..Len(bboxes) |->
                  [bbox |-> bboxes[i],
                   text |-> extract_text(_detect_backend, source_language,
                                         bboxes[i], os[i])]],
              LAMBDA r : r.text # <<>>)

\* A mutant of StatusAfterOcr: a page without text is put back to "pending".
StatusAfterOcr_retry(ocr_results) ==
    IF ocr_results = <<>> THEN "pending" ELSE "ocr_done"

\* Lines 101-104 and 120-128: the status committed after detection and OCR.
StatusAfterOcr(ocr_results) ==
    IF ocr_results = <<>> THEN "done" ELSE "ocr_done"

\* A mutant of page_detect_ocr: a detector exception is not caught in
\* _process_page.
page_detect_ocr_unguarded(t, d, os, ok) ==
    LET tk == task[t]
        p == tk.page
        ocr_results == OcrResults(detect(d), os)
        held == [tk EXCEPT !.pages[p] = StatusAfterOcr(ocr_results)]
    IN
    /\ tk.pc = "detect"
    /\ ocr_backend' = IF detect(d) = <<>> THEN ocr_backend ELSE _detect_backend
    /\ IF ok /\ ~d.raised
       THEN /\ page_status' = [page_status EXCEPT
                   ![p] = Flush(@, tk.pages[p], StatusAfterOcr(ocr_results))]
            /\ task' = [task EXCEPT ![t] =
                   IF ocr_results = <<>>
                   THEN NextPage(held, p + 1)
                   ELSE [held EXCEPT !.pc = "translate",
                                     !.ocr_results = ocr_results]]
       ELSE /\ task' = [task EXCEPT ![t] = Raise(tk)]
            /\ UNCHANGED page_status
    /\ UNCHANGED <<project_status, source_language, text_blocks, available, response>>

\* A mutant of page_detect_ocr: the blocks of the page are saved,
\* untranslated, in the commit of "ocr_done".
page_detect_ocr_saves_blocks(t, d, os, ok) ==
    LET tk == task[t]
        p == tk.page
        ocr_results == OcrResults(detect(d), os)
        held == [tk EXCEPT !.pages[p] = StatusAfterOcr(ocr_results)]
    IN
    /\ tk.pc = "detect"
    /\ ocr_backend' = IF detect(d) = <<>> THEN ocr_backend ELSE _detect_backend
    /\ IF ok
       THEN /\ page_status' = [page_status EXCEPT
                   ![p] = Flush(@, tk.pages[p], StatusAfterOcr(ocr_results))]
            /\ text_blocks' = [text_blocks EXCEPT
                   ![p] = @ \o [i \in 1..Len(ocr_results) |->
                                   [box_x |-> ocr_results[i].bbox.x,
                                    box_y |-> ocr_results[i].bbox.y,
                                    box_width |-> ocr_results[i].bbox.w,
                                    box_height |-> ocr_results[i].bbox.h,
                                    text_original |-> ocr_results[i].text,
                                    text_translated |-> ocr_results[i].text,
                                    is_edited |-> FALSE]]]
            /\ task' = [task EXCEPT ![t] =
                   IF ocr_results = <<>>
                   THEN NextPage(held, p + 1)
                   ELSE [held EXCEPT !.pc = "translate",
                                     !.ocr_results = ocr_results]]
       ELSE /\ task' = [task EXCEPT ![t] = Raise(tk)]
            /\ UNCHANGED <<page_status, text_blocks>>
    /\ UNCHANGED <<project_status, source_language, available, response>>

\* _process_page, lines 94-128: detect (outcome d), OCR each region
\* (outcomes os), then commit "done" (no region, or no text) or "ocr_done".
page_detect_ocr(t, d, os, ok) ==
    LET tk == task[t]
        p == tk.page
        ocr_results == OcrResults(detect(d), os)
        held == [tk EXCEPT !.pages[p] = StatusAfterOcr(ocr_results)]
    IN
    /\ tk.pc = "detect"
    /\ ocr_backend' = IF detect(d) = <<>> THEN ocr_backend ELSE _detect_backend
    /\ IF ok
       THEN /\ page_status' = [page_status EXCEPT
                   ![p] = Flush(@, tk.pages[p], StatusAfterOcr(ocr_results))]
            /\ task' = [task EXCEPT ![t] =
                   IF ocr_results = <<>>
                   THEN NextPage(held, p + 1)
                   ELSE [held EXCEPT !.pc = "translate",
                                     !.ocr_results = ocr_results]]
       ELSE /\ task' = [task EXCEPT ![t] = Raise(tk)]
            /\ UNCHANGED page_status
    /\ UNCHANGED <<project_status, source_language, text_blocks, available, response>>

\* Lines 145-153: the TextBlock of one (bbox, original, translated) triple.
TextBlock(bbox, original, translated) ==
    [box_x |-> bbox.x, box_y |-> bbox.y, box_width |-> bbox.w, box_height |-> bbox.h,
     text_original |-> original, text_translated |-> translated, is_edited |-> FALSE]

Min(a, b) == IF a <= b THEN a ELSE b

\* Lines 144-154: zip(ocr_results, translated_texts).
NewBlocks(ocr_results, translated_texts) ==
    [i \in 1..Min(Len(ocr_results), Len(translated_texts)) |->
        TextBlock(ocr_results[i].bbox, ocr_results[i].text, translated_texts[i])]

\* Line 131.
OriginalTexts(ocr_results) == [i \in 1..Len(ocr_results) |-> ocr_results[i].text]

\* A mutant of page_translate_save: the blocks the page had are replaced
\* by the blocks of this run.
page_translate_save_replacing(t, llm, ok) ==
    LET tk == task[t]
        p == tk.page
        translated_texts == translate_batch(OriginalTexts(tk.ocr_results), llm)
    IN
    /\ tk.pc = "translate"
    /\ IF ok
       THEN /\ text_blocks' = [text_blocks EXCEPT
                   ![p] = NewBlocks(tk.ocr_results, translated_texts)]
            /\ page_status' = [page_status EXCEPT
                   ![p] = Flush(@, tk.pages[p], "translated")]
            /\ task' = [task EXCEPT ![t] =
                   NextPage([tk EXCEPT !.pages[p] = "translated"], p + 1)]
       ELSE /\ task' = [task EXCEPT ![t] = Raise(tk)]
            /\ UNCHANGED <<text_blocks, page_status>>
    /\ UNCHANGED <<project_status, source_language, ocr_backend, available, response>>

\* _process_page, lines 130-157: translate the batch (the LLM behaves as
\* llm), add one TextBlock per pair, page.status = "translated"; commit.
\* translate_batch catches every failure of the LLM itself, so the handler
\* of lines 139-141 is never entered.
page_translate_save(t, llm, ok) ==
    LET tk == task[t]
        p == tk.page
        translated_texts == translate_batch(OriginalTexts(tk.ocr_results), llm)
    IN
    /\ tk.pc = "translate"
    /\ IF ok
       THEN /\ text_blocks' = [text_blocks EXCEPT
                   ![p] = @ \o NewBlocks(tk.ocr_results, translated_texts)]
            /\ page_status' = [page_status EXCEPT
                   ![p] = Flush(@, tk.pages[p], "translated")]
            /\ task' = [task EXCEPT ![t] =
                   NextPage([tk EXCEPT !.pages[p] = "translated"], p + 1)]
       ELSE /\ task' = [task EXCEPT ![t] = Raise(tk)]
            /\ UNCHANGED <<text_blocks, page_status>>
    /\ UNCHANGED <<project_status, source_language, ocr_backend, available, response>>

\* Lines 65-66: project.status = "ready"; commit.
mark_ready(t, ok) ==
    LET tk == task[t] IN
    /\ tk.pc = "ready"
    /\ IF ok
       THEN /\ project_status' = [project_status EXCEPT
                   ![tk.project_id] = Flush(@, tk.project, "ready")]
            /\ task' = [task EXCEPT ![t] = Finished(tk, "ready")]
       ELSE /\ task' = [task EXCEPT ![t] = Raise(tk)]
            /\ UNCHANGED project_status
    /\ UNCHANGED <<source_language, page_status, text_blocks, ocr_backend,
                   available, response>>

\* A mutant of handle_exception: the exception is caught at the page
\* boundary and the loop goes on with the next page.
handle_exception_next_page(t, ok) ==
    LET tk == task[t] IN
    /\ tk.pc = "except"
    /\ task' = [task EXCEPT ![t] =
            IF tk.page \in Pages THEN NextPage(tk, tk.page + 1)
            ELSE Finished(tk, "swallowed")]
    /\ UNCHANGED <<db, ocr_backend, available, response>>

\* A mutant of handle_exception: the error write is not guarded by the
\* inner try, so its failure leaves process_project_task as an exception.
handle_exception_unguarded(t, ok) ==
    LET tk == task[t] IN
    /\ tk.pc = "except"
    /\ IF tk.project # "unbound" /\ ok
       THEN /\ project_status' = [project_status EXCEPT ![tk.project_id] = "error"]
            /\ task' = [task EXCEPT ![t] = Finished(tk, "error")]
       ELSE /\ task' = [task EXCEPT ![t] = Finished(tk, "propagated")]
            /\ UNCHANGED project_status
    /\ UNCHANGED <<source_language, page_status, text_blocks, ocr_backend,
                   available, response>>

\* Lines 70-77: project.status = "error"; commit, and any failure of that
\* (the name project is unbound, or the commit raises) ends in a rollback.
\* The failed commit that led here expired the session's attributes, so the
\* UPDATE is emitted whatever the status was.
handle_exception(t, ok) ==
    LET tk == task[t] IN
    /\ tk.pc = "except"
    /\ IF tk.project # "unbound" /\ ok
       THEN /\ project_status' = [project_status EXCEPT ![tk.project_id] = "error"]
            /\ task' = [task EXCEPT ![t] = Finished(tk, "error")]
       ELSE /\ task' = [task EXCEPT ![t] = Finished(tk, "swallowed")]
            /\ UNCHANGED project_status
    /\ UNCHANGED <<source_language, page_status, text_blocks, ocr_backend,
                   available, response>>

\* One step of the run t in the environment env.
process_project_task(t, env) ==
    \/ \E ok \in BOOLEAN : load(t, ok)
    \/ \E ok \in BOOLEAN : mark_processing(t, ok)
    \/ \E ok \in BOOLEAN : page_start(t, ok)
    \/ \E d \in env.detector :
        \E os \in [1..Len(detect(d)) -> EnvOcr(env, _detect_backend)] :
            \E ok \in BOOLEAN : page_detect_ocr(t, d, os, ok)
    \/ \E llm \in EnvLlm(env, OriginalTexts(task[t].ocr_results)) :
        \E ok \in BOOLEAN : page_translate_save(t, llm, ok)
    \/ \E ok \in BOOLEAN : mark_ready(t, ok)
    \/ \E ok \in BOOLEAN : handle_exception(t, ok)

\* --------------------------------------------------------- specifications
\* The server: start requests and the background runs they queue.
Next ==
    /\ \/ \E project_id \in ProjectIds : start_pipeline(project_id)
       \/ \E t \in Tasks : process_project_task(t, CalmEnv)
    /\ UNCHANGED <<disk, aside>>

Spec == Init /\ [][Next]_vars

\* One call of process_project_task(project_id), for any project id, OCR
\* installation and source language, in any environment.
InitRun ==
    /\ InitDb
    /\ source_language \in Langs
    /\ available \in Backends
    /\ \E project_id \in ProjectIds :
        task = [t \in Tasks |-> IF t = 1 THEN Queued(project_id) ELSE NoTask]

NextRun ==
    /\ \E t \in Tasks : process_project_task(t, AnyEnv)
    /\ UNCHANGED <<disk, aside>>

SpecRun == InitRun /\ [][NextRun]_vars

\* -------------------------------------------------------- pipeline_status
StatusNotFound(project_id) == [op |-> "status", project_id |-> project_id, code |-> 404]

\* A mutant of pipeline_status: a page is counted under "done" while it is
\* not finished, and under its own status once it is.
pipeline_status_unfinished(project_id) ==
    IF project_status[project_id] = Absent THEN StatusNotFound(project_id)
    ELSE [op |-> "status", project_id |-> project_id, code |-> 200,
          project_status |-> project_status[project_id],
          total_pages |-> Cardinality(DOMAIN page_status),
          page_statuses |->
            [s \in {"done"} |->
                Cardinality({p \in DOMAIN page_status :
                                page_status[p] \notin {"done", "translated"}})]]

\* GET /pipeline/{project_id}/status: the project status and, for every
\* status some page has, the number of pages that have it.
pipeline_status(project_id) ==
    IF project_status[project_id] = Absent THEN StatusNotFound(project_id)
    ELSE [op |-> "status", project_id |-> project_id, code |-> 200,
          project_status |-> project_status[project_id],
          total_pages |-> Cardinality(DOMAIN page_status),
          page_statuses |->
            [s \in {page_status[p] : p \in DOMAIN page_status} |->
                Cardinality({p \in DOMAIN page_status : page_status[p] = s})]]

\* ------------------------------------------------------ update_text_block
\* The fields of TextBlockUpdate the model carries.
EditFields == {"text_original", "text_translated", "is_edited"}

\* A request body: the fields it sets (model_dump(exclude_unset=True) keeps
\* only these) and the value it gives to each.
Payloads ==
    [sent : SUBSET EditFields, text_original : {<<"fix">>},
     text_translated : {<<"edit">>}, is_edited : BOOLEAN]

\* A block id: the page of the block and its position among the page's blocks.
BlockIds == [page : Pages, index : 1..(2 * MaxRegions)]

\* Lines 160-165: the block exists and its page belongs to the project.
BlockExists(project_id, block_id) ==
    /\ project_id = "P1"
    /\ project_status[project_id] # Absent
    /\ block_id.page \in DOMAIN text_blocks
    /\ block_id.index \in 1..Len(text_blocks[block_id.page])

\* Lines 174-176: setattr for each field sent.
SetSentFields(block, payload) ==
    [f \in DOMAIN block |-> IF f \in payload.sent THEN payload[f] ELSE block[f]]

\* A mutant of MarkEdited: the value the request sent for is_edited is kept.
MarkEdited_unless_sent(block, payload) ==
    IF "is_edited" \in payload.sent THEN block ELSE [block EXCEPT !.is_edited = TRUE]

\* Line 179: block.is_edited = True.
MarkEdited(block, payload) == [block EXCEPT !.is_edited = TRUE]

Updated(project_id, block_id) == [op |-> "update", project_id |-> project_id, code |-> 200]
BlockNotFound(project_id, block_id) == [op |-> "update", project_id |-> project_id, code |-> 404]
Failed(op, project_id) == [op |-> op, project_id |-> project_id, code |-> 500]

\* PATCH /projects/{project_id}/blocks/{block_id} (ok: the flush and the
\* commit of get_db succeed; otherwise the transaction is rolled back).
update_text_block(project_id, block_id, payload, ok) ==
    /\ IF ~BlockExists(project_id, block_id)
       THEN /\ response' = BlockNotFound(project_id, block_id)
            /\ UNCHANGED text_blocks
       ELSE IF ~ok
       THEN /\ response' = Failed("update", project_id)
            /\ UNCHANGED text_blocks
       ELSE /\ text_blocks' = [text_blocks EXCEPT ![block_id.page][block_id.index] =
                    MarkEdited(SetSentFields(@, payload), payload)]
            /\ response' = Updated(project_id, block_id)
    /\ UNCHANGED <<project_status, source_language, page_status, task,
                   ocr_backend, available, disk>>

\* --------------------------------------------------------- export_project
\* What the rendering of one page can do: inpainting succeeds or raises
\* (the image cannot be read), typesetting or the copy succeeds or raises.
\* Typesetting is not reached when inpainting raised, so one outcome stands
\* for both outcomes of typesetting after an image that cannot be read.
RenderOutcomes == {o \in [inpaint : BOOLEAN, render : BOOLEAN] : o.inpaint \/ o.render}

\* The pages of the project, by page_number.
PageCount == Cardinality(DOMAIN text_blocks)

\* Lines 129-136 of _render_page: the boxes of the blocks of a page.
BlockBoxes(blocks) ==
    [i \in 1..Len(blocks) |->
        [x |-> blocks[i].box_x, y |-> blocks[i].box_y,
         w |-> blocks[i].box_width, h |-> blocks[i].box_height]]

\* Inpainter.clean_image on the image of page p, on the disk fs: the path
\* it returns and the disk it leaves.
clean_image(p, bboxes, o, fs) ==
    IF bboxes = <<>>
    THEN [raised |-> FALSE, path |-> SourceImage(p), files |-> fs]
    ELSE IF ~o.inpaint
    THEN [raised |-> TRUE, path |-> SourceImage(p), files |-> fs]
    ELSE [raised |-> FALSE, path |-> CleanedImage(p),
          files |-> fs \cup {CleanedImage(p)}]

\* A mutant of Cleanup: every image that was typeset from is removed.
Cleanup_any_path(p, cleaned_path, fs) == fs \ {cleaned_path}

\* Lines 165-166 of _render_page.
Cleanup(p, cleaned_path, fs) ==
    IF cleaned_path # SourceImage(p) /\ cleaned_path \in fs
    THEN fs \ {cleaned_path}
    ELSE fs

\* _render_page on the disk fs: whether it raised and the disk it leaves.
_render_page(p, blocks, o, fs) ==
    LET cleaned == clean_image(p, BlockBoxes(blocks), o, fs)
        output == IF blocks # <<>>
                  THEN OutputImage(p, Typeset(cleaned.path))
                  ELSE OutputImage(p, Copied(cleaned.path))
    IN
    IF cleaned.raised THEN [raised |-> TRUE, files |-> cleaned.files]
    ELSE IF ~o.render THEN [raised |-> TRUE, files |-> cleaned.files]
    ELSE [raised |-> FALSE,
          files |-> Cleanup(p, cleaned.path, cleaned.files \cup {output})]

\* A mutant of RenderPages: the first page that raises ends the loop.
RECURSIVE RenderPages_abort(_, _, _, _)
RenderPages_abort(k, n, os, fs) ==
    IF k > n THEN fs
    ELSE IF _render_page(k, text_blocks[k], os[k], fs).raised
    THEN _render_page(k, text_blocks[k], os[k], fs).files
    ELSE RenderPages_abort(k + 1, n, os, _render_page(k, text_blocks[k], os[k], fs).files)

\* Lines 74-80 of export_project: the pages k..n in order, a page that
\* raises being skipped.
RECURSIVE RenderPages(_, _, _, _)
RenderPages(k, n, os, fs) ==
    IF k > n THEN fs
    ELSE RenderPages(k + 1, n, os, _render_page(k, text_blocks[k], os[k], fs).files)

\* Lines 66-69: the export directory is removed and created again.
ClearExportDir(fs) == {f \in fs : f[1] # "export"}

\* Lines 83-86: the files of the export directory.
RenderedFiles(fs) == {f \in fs : f[1] = "export"}

Exported(project_id) == [op |-> "export", project_id |-> project_id, code |-> 200]
ExportNotFound(project_id) == [op |-> "export", project_id |-> project_id, code |-> 404]
NoPages(project_id) == [op |-> "export", project_id |-> project_id, code |-> 400]

\* A mutant of export_project: the archive is written and the status set
\* before the rendered files are counted.
export_project_unverified(project_id, os, ok) ==
    /\ project_status[project_id] # Absent
    /\ PageCount > 0
    /\ files' = RenderPages(1, PageCount, os, ClearExportDir(files))
    /\ archive' = [exists |-> TRUE, names |-> RenderedFiles(files')]
    /\ project_status' = [project_status EXCEPT ![project_id] = "exported"]
    /\ response' = Exported(project_id)
    /\ UNCHANGED <<source_language, page_status, text_blocks, task,
                   ocr_backend, available>>

\* GET /export/projects/{project_id}/export; os[p] is what the rendering
\* of page p does (ok: the flush and the commit of get_db succeed).
export_project(project_id, os, ok) ==
    /\ IF project_status[project_id] = Absent
       THEN /\ response' = ExportNotFound(project_id)
            /\ UNCHANGED <<project_status, disk>>
       ELSE IF PageCount = 0
       THEN /\ response' = NoPages(project_id)
            /\ UNCHANGED <<project_status, disk>>
       ELSE /\ files' = RenderPages(1, PageCount, os, ClearExportDir(files))
            /\ IF RenderedFiles(files') = {}
               THEN /\ response' = Failed("export", project_id)
                    /\ UNCHANGED <<project_status, archive>>
               ELSE /\ archive' = [exists |-> TRUE, names |-> RenderedFiles(files')]
                    /\ IF ok
                       THEN /\ project_status' =
                                [project_status EXCEPT ![project_id] = "exported"]
                            /\ response' = Exported(project_id)
                       ELSE /\ response' = Failed("export", project_id)
                            /\ UNCHANGED project_status
    /\ UNCHANGED <<source_language, page_status, text_blocks, task,
                   ocr_backend, available>>

\* ------------------------------------------------------- the application
\* The environment of the application specification: the detector finds at
\* most one region, OCR reads text in it, rendering does not fail.
SmallEnv ==
    [detector |-> {d \in DetectorOutcomes : Len(d.bboxes) <= 1},
     ocr |-> {"TEXT"}, all_or_nothing |-> TRUE]

\* The block the reviewer edits: the first block of the first page.
FirstBlock == [page |-> 1, index |-> 1]

\* The edits of the reviewer: a new translation, with or without an
\* explicit is_edited = false, or an empty body.
ReviewPayloads ==
    {payload \in Payloads :
        /\ "text_original" \notin payload.sent
        /\ payload.is_edited = FALSE}

RenderOk == [inpaint |-> TRUE, render |-> TRUE]

\* The server with its pipeline and export routers: pipeline starts and
\* runs, exports.
NextApp ==
    /\ \/ /\ start_pipeline("P1")
          /\ UNCHANGED disk
       \/ /\ \E t \in Tasks : process_project_task(t, SmallEnv)
          /\ UNCHANGED disk
       \/ \E ok \in BOOLEAN :
           export_project("P1", [p \in Pages |-> RenderOk], ok)
    /\ UNCHANGED aside

SpecApp == Init /\ [][NextApp]_vars

\* The export of a project of up to MaxExportPages pages, each page with
\* one TextBlock or none, in any rendering environment.  (create_project
\* commits no project without pages; the handler guards against one, and
\* the specification gives it one as an input.)
ExportBlock == TextBlock(Region(1), RegionText(Region(1)), Translation(RegionText(Region(1))))

InitExport ==
    /\ \E n \in 0..MaxExportPages :
        /\ text_blocks \in [1..n -> {<<>>, <<ExportBlock>>}]
        /\ page_status = [p \in 1..n |-> IF text_blocks[p] = <<>> THEN "done" ELSE "translated"]
        /\ files = {SourceImage(p) : p \in 1..n}
    /\ project_status = [id \in ProjectIds |-> IF id = "P1" THEN "ready" ELSE Absent]
    /\ source_language = "ja"
    /\ available = "manga_ocr"
    /\ ocr_backend = "None"
    /\ task = [t \in Tasks |-> NoTask]
    /\ response = NoResponse
    /\ archive = NoArchive
    /\ NoAside

NextExport ==
    /\ \E project_id \in ProjectIds : \E os \in [1..PageCount -> RenderOutcomes] :
        \E ok \in BOOLEAN : export_project(project_id, os, ok)
    /\ UNCHANGED aside

SpecExport == InitExport /\ [][NextExport]_vars

\* ----------------------------------------------------------- _create_mask
\* padding: int = 5
Padding == 5

Max(a, b) == IF a > b THEN a ELSE b

\* cv2.rectangle(mask, (x1, y1), (x2, y2), 255, thickness=-1) on an image
\* of h rows and w columns: the filled rectangle spanned by the two corner
\* points, both included, clipped to the image.
Rectangle(h, w, x1, y1, x2, y2) ==
    {px \in (0..(w - 1)) \X (0..(h - 1)) :
        /\ Min(x1, x2) <= px[1] /\ px[1] <= Max(x1, x2)
        /\ Min(y1, y2) <= px[2] /\ px[2] <= Max(y1, y2)}

\* The rectangle one bbox adds to the mask, lines 70-74.
BoxRectangle(h, w, bbox, padding) ==
    Rectangle(h, w,
              Max(0, bbox.x - padding), Max(0, bbox.y - padding),
              Min(w, bbox.x + bbox.w + padding), Min(h, bbox.y + bbox.h + padding))

\* _create_mask(img_shape, bboxes, padding): a mask of h rows and w columns
\* and the pixels <<x, y>> of it that are 255.
_create_mask(shape, boxes, padding) ==
    [built |-> TRUE,
     shape |-> shape,
     erase |-> UNION {BoxRectangle(shape[1], shape[2], boxes[i], padding) :
                        i \in 1..Len(boxes)}]

\* The images and boxes masks are built for: <<height, width>> of an image
\* that holds the padded boxes and of one that clips them; boxes at the
\* corner of the image and inside it, among them {0,0,20,20} and
\* {10,10,20,20}.
MaskShapes == {<<40, 40>>, <<28, 32>>}
MaskBoxes == [x : {0, 10}, y : {0, 10}, w : {20, 4}, h : {20}]

InitMask ==
    /\ InitDb
    /\ source_language = "ja"
    /\ available = "manga_ocr"
    /\ task = [t \in Tasks |-> NoTask]

\* _inpaint_sync, lines 89-90: h, w = img.shape[:2].
read_image ==
    /\ img_shape = <<0, 0>>
    /\ img_shape' \in MaskShapes
    /\ UNCHANGED <<mask_bboxes, mask>>

\* _render_page, lines 129-136: one bbox per TextBlock of the page.
add_bbox ==
    /\ img_shape # <<0, 0>>
    /\ ~mask.built
    /\ Len(mask_bboxes) < MaxMaskBoxes
    /\ \E bbox \in MaskBoxes : mask_bboxes' = Append(mask_bboxes, bbox)
    /\ UNCHANGED <<img_shape, mask>>

\* _inpaint_sync, line 90: mask = self._create_mask((h, w), bboxes).
create_mask ==
    /\ img_shape # <<0, 0>>
    /\ mask_bboxes # <<>>
    /\ ~mask.built
    /\ mask' = _create_mask(img_shape, mask_bboxes, Padding)
    /\ UNCHANGED <<img_shape, mask_bboxes>>

NextMask ==
    /\ read_image \/ add_bbox \/ create_mask
    /\ UNCHANGED <<db, task, ocr_backend, available, response, disk,
                   detection, ocr_call, layout, batch,
                   apart>>

SpecMask == InitMask /\ [][NextMask]_vars

\* The server with its pipeline and projects routers: pipeline starts and
\* runs, edits of a block by the reviewer.
NextReview ==
    /\ \/ /\ start_pipeline("P1")
          /\ UNCHANGED disk
       \/ /\ \E t \in Tasks : process_project_task(t, SmallEnv)
          /\ UNCHANGED disk
       \/ \E payload \in ReviewPayloads : \E ok \in BOOLEAN :
           update_text_block("P1", FirstBlock, payload, ok)
    /\ UNCHANGED aside

SpecReview == Init /\ [][NextReview]_vars

\* ------------------------------------------------------------ _detect_sync
\* sorted(values, key=...): the indices 1..n of keys in ascending order of
\* key, equal keys in their order in the list (the sort is stable).  A key
\* is a pair of integers.
KeyLess(k1, k2) == k1[1] < k2[1] \/ (k1[1] = k2[1] /\ k1[2] < k2[2])

RECURSIVE Order(_, _)
Order(keys, n) ==
    IF n = 0 THEN <<>>
    ELSE LET prev == Order(keys, n - 1)
             later == {j \in 1..(n - 1) : KeyLess(keys[n], keys[prev[j]])}
             pos == IF later = {} THEN n
                    ELSE CHOOSE j \in later : \A i \in later : j <= i
         IN SubSeq(prev, 1, pos - 1) \o <<n>> \o SubSeq(prev, pos, n - 1)

SortedOn(values, keys) ==
    [i \in 1..Len(values) |-> values[Order(keys, Len(values))[i]]]

\* Lines 184-198: box overlaps kept when their rectangles intersect and
\* intersection / union > iou_threshold (0.5).
Intersection(box, kept) ==
    LET x1 == Max(box.x, kept.x)
        y1 == Max(box.y, kept.y)
        x2 == Min(box.x + box.w, kept.x + kept.w)
        y2 == Min(box.y + box.h, kept.y + kept.h)
    IN IF x1 < x2 /\ y1 < y2 THEN (x2 - x1) * (y2 - y1) ELSE 0

Overlapping(box, kept) ==
    LET intersection == Intersection(box, kept)
        union == box.w * box.h + kept.w * kept.h - intersection
    IN intersection > 0 /\ union > 0 /\ 2 * intersection > union

\* A mutant of Keep: a box is compared with the last kept box only.
RECURSIVE Keep_last_only(_, _, _)
Keep_last_only(sorted_boxes, i, keep) ==
    IF i > Len(sorted_boxes) THEN keep
    ELSE Keep_last_only(sorted_boxes, i + 1,
              IF keep # <<>> /\ Overlapping(sorted_boxes[i], keep[Len(keep)])
              THEN keep
              ELSE Append(keep, sorted_boxes[i]))

\* Lines 180-201: the loop over sorted_boxes from the i-th box on.
RECURSIVE Keep(_, _, _)
Keep(sorted_boxes, i, keep) ==
    IF i > Len(sorted_boxes) THEN keep
    ELSE Keep(sorted_boxes, i + 1,
              IF \E j \in 1..Len(keep) : Overlapping(sorted_boxes[i], keep[j])
              THEN keep
              ELSE Append(keep, sorted_boxes[i]))

\* A mutant of _remove_overlapping: the boxes are sorted smallest first.
_remove_overlapping_smallest_first(bboxes) ==
    IF bboxes = <<>> THEN <<>>
    ELSE Keep(SortedOn(bboxes, [i \in 1..Len(bboxes) |->
                                  <<bboxes[i].w * bboxes[i].h, 0>>]), 1, <<>>)

\* sorted(bboxes, key=lambda b: b["w"] * b["h"], reverse=True), then the
\* loop.
_remove_overlapping(bboxes) ==
    IF bboxes = <<>> THEN <<>>
    ELSE Keep(SortedOn(bboxes, [i \in 1..Len(bboxes) |->
                                  <<0 - bboxes[i].w * bboxes[i].h, 0>>]), 1, <<>>)

\* bboxes.sort(key=lambda b: (-b["x"], b["y"]))
ReadingOrder(bboxes) ==
    SortedOn(bboxes, [i \in 1..Len(bboxes) |-> <<0 - bboxes[i].x, bboxes[i].y>>])

\* _detect_fallback on an image whose contours that pass the size and
\* brightness tests have the bounding rectangles found.
_detect_fallback(found) == ReadingOrder(_remove_overlapping(found))

\* What the installation gives _load_model: the comic-text-detector model,
\* an ImportError, another exception.
LoadOutcomes == {"ctd", "fallback", "RAISE"}
\* What one call of _detect_sync meets: the image can be read or not, the
\* model's detect raises or not, the OpenCV calls of the fallback raise or
\* not.
DetectCalls == [image : BOOLEAN, model : {"RAISE", "OK"}, contours : {"RAISE", "OK"}]

\* _load_model: the model after the call ("None" when the load raised).
_load_model(model, installed) ==
    IF model # "None" THEN model
    ELSE IF installed = "RAISE" THEN "None"
    ELSE installed

Raised == [done |-> TRUE, raised |-> TRUE, by |-> "none", bboxes |-> <<>>]
Returned(by, bboxes) == [done |-> TRUE, raised |-> FALSE, by |-> by, bboxes |-> bboxes]

Fallback(found, o) ==
    IF o.contours = "RAISE" THEN Raised
    ELSE Returned("fallback", _detect_fallback(found))

\* Lines 58-101 with the model loaded (or not, when the load raised): the
\* boxes of the model that pass its size test are returned as they are; the
\* boxes of the fallback are merged and sorted.
DetectResult(model, found, o) ==
    IF model = "None" THEN Raised
    ELSE IF ~o.image THEN Returned("none", <<>>)
    ELSE IF model = "fallback" THEN Fallback(found, o)
    ELSE IF o.model = "OK" THEN Returned("ctd", found)
    ELSE Fallback(found, o)

\* TextDetector._detect_sync(image_path).
_detect_sync(installed, o) ==
    /\ detector_model' = _load_model(detector_model, installed)
    /\ detected' = DetectResult(detector_model', candidates, o)
    /\ UNCHANGED candidates

\* The regions found in a page image: three that overlap in a chain, one
\* a pixel to the right of the first and below it, two of equal area that
\* overlap, one of the area and origin of the first.
CandidateBoxes ==
    {[x |-> 0, y |-> 0, w |-> 100, h |-> 60],
     [x |-> 30, y |-> 0, w |-> 80, h |-> 60],
     [x |-> 55, y |-> 0, w |-> 70, h |-> 60],
     [x |-> 1, y |-> 80, w |-> 60, h |-> 60],
     [x |-> 200, y |-> 0, w |-> 60, h |-> 60],
     [x |-> 210, y |-> 10, w |-> 60, h |-> 60],
     [x |-> 0, y |-> 0, w |-> 60, h |-> 100]}

CandidateLists == UNION {[1..n -> CandidateBoxes] : n \in 0..MaxCandidates}

\* The detector on one page image, called any number of times.
InitDetect ==
    /\ project_status = [id \in ProjectIds |-> IF id = "P1" THEN "ready" ELSE Absent]
    /\ page_status = [p \in Pages |-> "pending"]
    /\ text_blocks = [p \in Pages |-> <<>>]
    /\ source_language = "ja"
    /\ available = "manga_ocr"
    /\ ocr_backend = "None"
    /\ task = [t \in Tasks |-> NoTask]
    /\ response = NoResponse
    /\ files = {SourceImage(p) : p \in Pages}
    /\ archive = NoArchive
    /\ NoMasking
    /\ detector_model = "None"
    /\ candidates \in CandidateLists
    /\ detected = NotDetected
    /\ ocr_call = NoOcrCall
    /\ layout = NoLayout
    /\ batch = NoBatch
    /\ NoApart

NextDetect ==
    /\ \E installed \in LoadOutcomes : \E o \in DetectCalls : _detect_sync(installed, o)
    /\ UNCHANGED <<db, task, ocr_backend, available, response, disk,
                   masking, ocr_call, layout, batch,
                   apart>>

SpecDetect == InitDetect /\ [][NextDetect]_vars

\* ------------------------------------------------------------ extract_text
\* Lines 184-222, the body of the try of extract_text: whether it raised,
\* the text, and the runners it called, in order.
ExtractBody(backend, source_lang, bbox, o) ==
    IF (backend = "manga_ocr" /\ source_lang = "ja") \/ backend = "easyocr"
    THEN [raised |-> o.first = "RAISE", text |-> RunnerText(o.first, bbox),
          called |-> <<backend>>]
    ELSE IF backend = "tesseract"
    THEN [raised |-> _ocr_tesseract_sync(bbox, o).raised,
          text |-> _ocr_tesseract_sync(bbox, o).text,
          called |-> IF o.first = "RAISE" THEN <<"tesseract", "tesseract">>
                     ELSE <<"tesseract">>]
    ELSE IF backend = "manga_ocr"
    THEN IF o.first = "RAISE"
         THEN [raised |-> FALSE, text |-> _ocr_placeholder_sync(bbox),
               called |-> <<"easyocr", "placeholder">>]
         ELSE [raised |-> FALSE, text |-> RunnerText(o.first, bbox),
               called |-> <<"easyocr">>]
    ELSE [raised |-> FALSE, text |-> _ocr_placeholder_sync(bbox),
          called |-> <<"placeholder">>]

\* A mutant of ExtractText: extract_text has no handler.
ExtractText_unhandled(backend, source_lang, bbox, o) ==
    ExtractBody(backend, source_lang, bbox, o)

\* A mutant of ExtractText: when the backend raises, the next backend of
\* the chain is called.
ExtractText_next_backend(backend, source_lang, bbox, o) ==
    LET body == ExtractBody(backend, source_lang, bbox, o) IN
    IF body.raised
    THEN [raised |-> FALSE, text |-> RunnerText("TEXT", bbox),
          called |-> body.called \o <<IF backend = "manga_ocr" THEN "easyocr"
                                      ELSE IF backend = "easyocr" THEN "tesseract"
                                      ELSE "placeholder">>]
    ELSE body

\* extract_text, lines 183-227: the handler returns the placeholder text.
ExtractText(backend, source_lang, bbox, o) ==
    LET body == ExtractBody(backend, source_lang, bbox, o) IN
    IF body.raised
    THEN [raised |-> FALSE, text |-> _ocr_placeholder_sync(bbox), called |-> body.called]
    ELSE body

\* _process_page, lines 111-116: extract_text on the next region of the
\* page, the backend call behaving as o.
extract_next(o) ==
    LET region == ocr_call.region + 1
        call == ExtractText(_detect_backend, source_language, detected.bboxes[region], o)
    IN
    /\ detected.done
    /\ region <= Len(detected.bboxes)
    /\ ocr_call' = [region |-> region, o |-> o, raised |-> call.raised,
                    text |-> call.text, called |-> call.called]
    /\ ocr_backend' = _detect_backend
    /\ UNCHANGED detection

\* Detection and OCR of one page image with up to two regions, for any
\* installation and source language.
InitOcr ==
    /\ project_status = [id \in ProjectIds |-> IF id = "P1" THEN "ready" ELSE Absent]
    /\ page_status = [p \in Pages |-> "pending"]
    /\ text_blocks = [p \in Pages |-> <<>>]
    /\ source_language \in Langs
    /\ available \in Backends
    /\ ocr_backend = "None"
    /\ task = [t \in Tasks |-> NoTask]
    /\ response = NoResponse
    /\ files = {SourceImage(p) : p \in Pages}
    /\ archive = NoArchive
    /\ NoMasking
    /\ detector_model = "None"
    /\ candidates \in {c \in CandidateLists : Len(c) <= 2 /\ \A i \in 1..Len(c) : c[i].w = 60}
    /\ detected = NotDetected
    /\ ocr_call = NoOcrCall
    /\ layout = NoLayout
    /\ batch = NoBatch
    /\ NoApart

NextOcr ==
    /\ \/ /\ ~detected.done
          /\ \E installed \in LoadOutcomes : \E o \in DetectCalls : _detect_sync(installed, o)
          /\ UNCHANGED <<ocr_call, ocr_backend>>
       \/ \E o \in OcrOutcomes(_detect_backend) : extract_next(o)
    /\ UNCHANGED <<db, task, available, response, disk, masking, layout, batch,
                   apart>>

SpecOcr == InitOcr /\ [][NextOcr]_vars

\* --------------------------------------------------------- translate_batch
\* The texts of a batch: three texts and the empty text.
BatchTexts ==
    UNION {[1..n -> {<<"hello">>, <<"world">>, <<"foo">>, <<>>}] : n \in 0..MaxTexts}

\* The lines an answer to n texts can hold: a line tagged k, k up to n + 1,
\* with a text or with nothing after the tag.
AnswerLine(n) == [tag : 1..(n + 1), body : {<<"translation">>, <<>>}]
TaggedAnswer(line) ==
    [tag |-> line.tag,
     body |-> IF line.body = <<>> THEN <<>> ELSE line.body \o str(line.tag)]

\* What the LLM can do during one translate_batch(texts): each single call
\* raises or answers; the combined call raises or answers with up to
\* MaxAnswerLines lines, in any order, tags missing or repeated.
BatchBehaviours(texts) ==
    IF Len(texts) <= 2
    THEN {[calls |-> c, raw |-> NoAnswer] : c \in [1..Len(texts) -> LlmCalls]}
    ELSE {[calls |-> <<>>, raw |-> NoAnswer]}
         \cup {[calls |-> <<>>,
                raw |-> [raised |-> FALSE,
                         lines |-> [k \in 1..Len(ls) |-> TaggedAnswer(ls[k])]]] :
                  ls \in UNION {[1..m -> AnswerLine(Len(texts))] : m \in 0..MaxAnswerLines}}

\* The call of _call_llm in translate_text (lines 191-194): the user prompt
\* holds the text, without a tag; no call for an empty text (line 175).
translate_text_requests(text) ==
    IF text = <<>> THEN <<>>
    ELSE <<[max_tokens |-> 500, prompt |-> <<[tag |-> 0, text |-> text]>>]>>

\* "\n".join(f"[{i+1}] {t}" for i, t in enumerate(texts))
numbered(texts) == [i \in 1..Len(texts) |-> [tag |-> i, text |-> texts[i]]]

RECURSIVE Concat(_)
Concat(seqs) == IF seqs = <<>> THEN <<>> ELSE Head(seqs) \o Concat(Tail(seqs))

\* A mutant of translate_batch_requests: batches of up to three texts are
\* translated text by text.
translate_batch_requests_threshold_3(texts) ==
    IF texts = <<>> THEN <<>>
    ELSE IF Len(texts) <= 3
    THEN Concat([i \in 1..Len(texts) |-> translate_text_requests(texts[i])])
    ELSE <<[max_tokens |-> 1500, prompt |-> numbered(texts)]>>

\* The calls of _call_llm that translate_batch(texts) makes, in order
\* (lines 219-244); a call that raises is caught where it was made and the
\* calls after it are made all the same.
translate_batch_requests(texts) ==
    IF texts = <<>> THEN <<>>
    ELSE IF Len(texts) <= 2
    THEN Concat([i \in 1..Len(texts) |-> translate_text_requests(texts[i])])
    ELSE <<[max_tokens |-> 1500, prompt |-> numbered(texts)]>>

\* One call of Translator.translate_batch(texts).
translate_call ==
    /\ ~batch.called
    /\ \E texts \in BatchTexts : \E llm \in BatchBehaviours(texts) :
        batch' = [called |-> TRUE, texts |-> texts, llm |-> llm,
                  requests |-> translate_batch_requests(texts),
                  result |-> translate_batch(texts, llm)]

InitTranslate == Init

NextTranslate ==
    /\ translate_call
    /\ UNCHANGED <<db, task, ocr_backend, available, response, disk,
                   masking, detection, ocr_call, layout,
                   apart>>

SpecTranslate == InitTranslate /\ [][NextTranslate]_vars

\* ------------------------------------------------------------------ claims
\* The run t has been accepted by start_pipeline and has not ended.
InFlight(t) == task[t].pc \notin {"idle", "finished"}

PagePcs == {"page", "detect", "translate"}

\* C1: at no point are two pipeline runs of the same project in flight:
\* between the acceptance of a start and the end of the run it queued, no
\* other run of that project is accepted.
C1_OneRunInFlight ==
    \A t, u \in Tasks :
        (InFlight(t) /\ InFlight(u) /\ task[t].project_id = task[u].project_id)
            => t = u

\* C2: a start_pipeline on a project whose status is "processing" answers
\* 409, one on an id no project has answers 404, and in both cases no run
\* is queued and no project, page or text block changes.
C2_RejectedStart ==
    [][\A project_id \in ProjectIds :
        (/\ start_pipeline(project_id)
         /\ project_status[project_id] \in {Absent, "processing"})
        => /\ response'.code =
                IF project_status[project_id] = Absent THEN 404 ELSE 409
           /\ UNCHANGED <<db, task>>]_vars

\* A start was rejected with 409 while a run of the project was in flight.
C2_Witness ==
    /\ response = Conflict("P1")
    /\ project_status["P1"] = "processing"
    /\ \E t \in Tasks : InFlight(t)

C4_NoRegionsPageDone ==
    [][\A t \in Tasks : \A d \in DetectorOutcomes :
        (detect(d) = <<>> /\ page_detect_ocr(t, d, <<>>, TRUE))
        => /\ task[t].pages[task[t].page] = "processing"
           /\ page_status'[task[t].page] = "done"
           /\ task'[t].pages[task[t].page] = "done"
           /\ text_blocks' = text_blocks
           /\ task'[t].page = task[t].page + 1
           /\ task'[t].pc = IF task[t].page = NumPages THEN "ready" ELSE "page"]_vars

\* The first page is done without blocks and the run is at the second page.
C4_Witness ==
    \E t \in Tasks :
        /\ task[t].pc = "page"
        /\ task[t].page = 2
        /\ page_status[1] = "done"
        /\ text_blocks[1] = <<>>

\* The backend selected for the region raises at call time (for tesseract:
\* also on its retry), so that extract_text has no text from a backend.
OcrFails(backend, source_lang, o) ==
    /\ backend # "placeholder"
    /\ o.first = "RAISE"
    /\ backend = "tesseract" => o.second = "RAISE"

\* The region bbox is among the results kept for translation.
Kept(ocr_results, bbox) == \E i \in 1..Len(ocr_results) : ocr_results[i].bbox = bbox

\* C5 as stated: a region whose OCR fails is dropped: it is not among the
\* results sent to translation and saved as TextBlocks.
C5_FailedRegionDropped ==
    [][\A t \in Tasks : task[t].pc = "detect" => \A d \in DetectorOutcomes :
        \A os \in [1..Len(detect(d)) -> OcrOutcomes(_detect_backend)] :
            page_detect_ocr(t, d, os, TRUE)
            => \A i \in 1..Len(detect(d)) :
                OcrFails(_detect_backend, source_language, os[i])
                    => ~Kept(task'[t].ocr_results, detect(d)[i])]_vars

\* C5 as amended: a region whose OCR fails is recovered as the placeholder
\* text "[<text> x,y]" and kept: the placeholder is sent to translation and a
\* TextBlock is persisted with it as text_original.  Only a region whose OCR
\* returns empty text is dropped.
C5_FailedRegionKept ==
    [][\A t \in Tasks :
        /\ task[t].pc = "detect" =>
           \A d \in DetectorOutcomes : \A os \in [1..Len(detect(d)) -> OcrOutcomes(_detect_backend)] :
            page_detect_ocr(t, d, os, TRUE)
            => \A i \in 1..Len(detect(d)) :
                LET bbox == detect(d)[i]
                    text == extract_text(_detect_backend, source_language, bbox, os[i])
                IN
                /\ OcrFails(_detect_backend, source_language, os[i])
                    => /\ text = _ocr_placeholder_sync(bbox)
                       /\ \E j \in 1..Len(task'[t].ocr_results) :
                            task'[t].ocr_results[j] = [bbox |-> bbox, text |-> text]
                /\ Kept(task'[t].ocr_results, bbox) <=> text # <<>>
        /\ task[t].pc = "translate" =>
           \A llm \in LlmBehaviours(OriginalTexts(task[t].ocr_results)) :
            page_translate_save(t, llm, TRUE)
            => LET p == task[t].page
                   added == SubSeq(text_blocks'[p], Len(text_blocks[p]) + 1,
                                   Len(text_blocks'[p]))
               IN
               /\ Len(added) = Len(task[t].ocr_results)
               /\ \A j \in 1..Len(added) :
                    /\ added[j].text_original = task[t].ocr_results[j].text
                    /\ added[j].box_x = task[t].ocr_results[j].bbox.x
                    /\ added[j].box_y = task[t].ocr_results[j].bbox.y]_vars

\* With manga-ocr selected for a Japanese project, a TextBlock holds the
\* placeholder of its region: the backend raised and the region was kept.
C5_Witness ==
    /\ ocr_backend = "manga_ocr"
    /\ source_language = "ja"
    /\ \E p \in Pages : \E j \in 1..Len(text_blocks[p]) :
        text_blocks[p][j].text_original = _ocr_placeholder_sync(Region(1))

\* The translation of the i-th text of the batch failed: its single call
\* raised, or the combined call raised or answered without the tag i.
TranslationFailed(texts, llm, i) ==
    IF Len(texts) <= 2 THEN llm.calls[i] = "RAISE"
    ELSE llm.raw.raised \/ TaggedLine(llm.raw.lines, i, 1) = 0

PartlyTranslated(blocks) ==
    /\ blocks[1].text_translated = Translation(blocks[1].text_original)
    /\ blocks[Len(blocks)].text_translated = Sentinel(blocks[Len(blocks)].text_original)

Rank(status) ==
    CASE status = "pending" -> 1
      [] status = "processing" -> 2
      [] status = "ocr_done" -> 3
      [] status = "translated" -> 4
      [] status = "done" -> 5
      [] status = "error" -> 6

\* The run t commits a new status for page p in this step; the status it
\* held before is the one it loaded or the one it committed last.
Commits(t, p) ==
    /\ task[t].pc \notin {"idle", "queued"}
    /\ task'[t].pc # "finished"
    /\ task'[t].pages[p] # task[t].pages[p]

\* C7 as stated: the statuses a run commits for a page, starting from the
\* status the page has when the run begins, never regress.
C7_NeverRegresses ==
    [][\A t \in Tasks : \A p \in Pages :
        Commits(t, p) => Rank(task[t].pages[p]) < Rank(task'[t].pages[p])]_vars

\* C7 as amended: the first status a run commits for a page is "processing",
\* whatever status the page has when the run begins (so a page an earlier
\* run left at ocr_done, translated or done regresses to processing); the
\* statuses the run commits for the page after that never regress:
\* processing -> ocr_done -> translated, or processing -> done.
C7_ForwardAfterProcessing ==
    [][\A t \in Tasks : \A p \in Pages :
        Commits(t, p)
        => /\ p = task[t].page
           /\ IF task[t].pc = "page"
              THEN task'[t].pages[p] = "processing"
              ELSE /\ task[t].pages[p] \in {"processing", "ocr_done"}
                   /\ Rank(task[t].pages[p]) < Rank(task'[t].pages[p])]_vars

\* A page that holds blocks, so was translated before, is processing again.
C7_Witness ==
    \E p \in Pages :
        /\ page_status[p] = "processing"
        /\ text_blocks[p] # <<>>

\* The run t commits the first status of its current page in this step.
StartsPage(t) == task[t].pc = "page" /\ task'[t].pc = "detect"

EndsReady(t) ==
    /\ task[t].pc # "finished"
    /\ task'[t].pc = "finished"
    /\ task'[t].result = "ready"

\* C9: Project.status becomes ready exactly when every page of the run was
\* processed without an exception reaching the handler of the run, and ready
\* is committed only after the last page committed its final status.
C9_ReadyAfterAllPages ==
    [][/\ \A t \in Tasks :
            /\ EndsReady(t)
                => /\ task[t].pc = "ready"
                   /\ project_status'[task[t].project_id] = "ready"
            /\ (task[t].pc = "ready" /\ task'[t] # task[t])
                => \/ EndsReady(t)
                   \/ /\ task'[t].pc = "except"
                      /\ UNCHANGED project_status
            /\ task'[t].pc = "ready"
                => /\ task'[t].page = NumPages + 1
                   /\ task'[t].project = "processing"
                   /\ \A p \in Pages : task'[t].pages[p] \in {"done", "translated"}
            /\ (task[t].pc = "except" /\ task'[t] # task[t])
                => task'[t].result # "ready"
       /\ \A id \in ProjectIds :
            (project_status'[id] = "ready" /\ project_status[id] # "ready")
                => \E t \in Tasks : EndsReady(t) /\ task[t].project_id = id]_vars

\* A run has ended with "ready" after its pages reached done or translated.
C9_Witness ==
    /\ project_status["P1"] = "ready"
    /\ \E t \in Tasks : task[t].pc = "finished" /\ task[t].result = "ready"
    /\ page_status[1] = "done"
    /\ page_status[NumPages] = "translated"

ProjectRank(status) ==
    CASE status = "processing" -> 1
      [] status = "ready" -> 2
      [] status = "exported" -> 3
      [] OTHER -> 0

CommitsProcessing(t, id) ==
    /\ task[t].pc = "loaded"
    /\ task'[t].pc = "page"
    /\ task[t].project_id = id

\* The run t commits project.status = "error" in this step.
CommitsError(t, id) ==
    /\ task[t].pc = "except"
    /\ task'[t].pc = "finished"
    /\ task'[t].result = "error"
    /\ task[t].project_id = id

Counted(observation, s) ==
    IF s \in DOMAIN observation.page_statuses THEN observation.page_statuses[s] ELSE 0

\* The progress an observer reads in pipeline_status: the pages finished.
Progress(observation) == Counted(observation, "done") + Counted(observation, "translated")

\* The runs accepted so far, ended or not.
AcceptedRuns == {t \in Tasks : task[t].pc # "idle"}

C13_OneBlockPerRegion ==
    [][\A t \in Tasks :
        (\A u \in Tasks \ {t} : ~InFlight(u))
        => /\ task[t].pc = "translate" =>
                \A llm \in LlmBehaviours(OriginalTexts(task[t].ocr_results)) :
                    page_translate_save(t, llm, TRUE)
                    => text_blocks'[task[t].page] =
                        NewBlocks(task[t].ocr_results,
                                  translate_batch(OriginalTexts(task[t].ocr_results), llm))
           /\ (task[t].pc = "detect" /\ task'[t].pc \in {"page", "ready"})
                => text_blocks'[task[t].page] = <<>>]_vars

\* The step is an update_text_block request that is answered 200 (no run
\* moves in the step of a request, and the response is the one of the
\* request).
UpdateStep == task' = task /\ response'.op = "update" /\ response'.code = 200

\* C14: update_text_block leaves the block with is_edited = TRUE whichever
\* fields the request carries (none, or an explicit is_edited = FALSE
\* included), gives every field sent the value sent and changes no other
\* field and no other block; and a block that is edited stays edited under
\* every later edit and pipeline run.
C14_EditedIsSticky ==
    [][/\ UpdateStep =>
            \A payload \in Payloads : \A block_id \in BlockIds :
                (BlockExists("P1", block_id)
                    /\ update_text_block("P1", block_id, payload, TRUE))
                => LET old == text_blocks[block_id.page][block_id.index]
                       new == text_blocks'[block_id.page][block_id.index]
                   IN
                   /\ new.is_edited = TRUE
                   /\ \A f \in DOMAIN old \ {"is_edited"} :
                        new[f] = IF f \in payload.sent THEN payload[f] ELSE old[f]
                   /\ \A p \in Pages :
                        /\ Len(text_blocks'[p]) = Len(text_blocks[p])
                        /\ \A i \in 1..Len(text_blocks[p]) :
                            [page |-> p, index |-> i] # block_id
                                => text_blocks'[p][i] = text_blocks[p][i]
       /\ \A p \in Pages : \A i \in 1..Len(text_blocks[p]) :
            text_blocks[p][i].is_edited
                => /\ i <= Len(text_blocks'[p])
                   /\ text_blocks'[p][i].is_edited]_vars

\* The first block was edited: it carries the translation of the reviewer,
\* the original text of the pipeline, and is_edited.
C14_Witness ==
    /\ response = Updated("P1", FirstBlock)
    /\ Len(text_blocks[1]) >= 1
    /\ text_blocks[1][1].is_edited
    /\ text_blocks[1][1].text_translated = <<"edit">>
    /\ text_blocks[1][1].text_original = RegionText(Region(1))

\* C15: user edits win over pipeline re-runs: no step of a pipeline run
\* (and no start request) modifies or deletes a TextBlock that exists, so
\* an edited block keeps every field value across later runs.
C15_RunsKeepBlocks ==
    [][task' # task
        => \A p \in Pages : \A i \in 1..Len(text_blocks[p]) :
            /\ i <= Len(text_blocks'[p])
            /\ text_blocks'[p][i] = text_blocks[p][i]]_vars

\* The first block of page 1 was edited before the last start request, and
\* a run has since added a block to the page and ended: the edited block
\* still carries the translation of the reviewer.
C15_Witness ==
    /\ response = Accepted("P1")
    /\ \A t \in Tasks : task[t].pc = "finished"
    /\ Len(text_blocks[1]) = 2
    /\ text_blocks[1][1].is_edited
    /\ text_blocks[1][1].text_translated = <<"edit">>
    /\ ~text_blocks[1][2].is_edited

\* The rendering of page p succeeds in the environment o.
Renders(p, o) == ~_render_page(p, text_blocks[p], o, files).raised

\* The files of the export directory that belong to the pages of S.
OutputsOf(fs, S) == {f \in RenderedFiles(fs) : f[2] \in S}

\* C16: export isolates page failures: the pages whose rendering raises are
\* skipped, every other page is rendered, and when at least one page was
\* rendered export_project answers with an archive of exactly one file per
\* rendered page (the commit not failing).
C16_ExportSkipsFailedPages ==
    [][\A os \in [1..PageCount -> RenderOutcomes] :
        (PageCount > 0 /\ export_project("P1", os, TRUE))
        => LET rendered == {p \in 1..PageCount : Renders(p, os[p])} IN
           /\ \A p \in 1..PageCount :
                Cardinality(OutputsOf(files', {p})) = IF p \in rendered THEN 1 ELSE 0
           /\ rendered # {}
                => /\ response' = Exported("P1")
                   /\ archive'.exists
                   /\ archive'.names = OutputsOf(files', rendered)
                   /\ Cardinality(archive'.names) = Cardinality(rendered)]_vars

\* The export of a project of three pages, the rendering of page 2 raising,
\* was answered with an archive of two files.
C16_Witness ==
    /\ PageCount = 3
    /\ response = Exported("P1")
    /\ Cardinality(archive.names) = 2
    /\ OutputsOf(archive.names, {2}) = {}
    /\ OutputsOf(files, {2}) = {}

\* C17: export_project sets Project.status to exported only when it produced
\* an archive; for a project without pages, or when no page was rendered, it
\* answers with an error (400, 500), writes no archive and leaves
\* Project.status as it was.
C17_ExportedOnlyWithArchive ==
    [][\A os \in [1..PageCount -> RenderOutcomes] : \A ok \in BOOLEAN :
        export_project("P1", os, ok)
        => /\ project_status'["P1"] # project_status["P1"]
                => /\ project_status'["P1"] = "exported"
                   /\ response' = Exported("P1")
                   /\ archive'.exists
                   /\ archive'.names = RenderedFiles(files') /\ archive'.names # {}
           /\ PageCount = 0
                => /\ response' = NoPages("P1")
                   /\ UNCHANGED <<project_status, archive, files>>
           /\ (PageCount > 0 /\ \A p \in 1..PageCount : ~Renders(p, os[p]))
                => /\ response' = Failed("export", "P1")
                   /\ UNCHANGED <<project_status, archive>>]_vars

\* An export in which no page was rendered was answered 500: the project is
\* still ready and there is no archive.
C17_Witness ==
    /\ PageCount > 0
    /\ response = Failed("export", "P1")
    /\ RenderedFiles(files) = {}
    /\ project_status["P1"] = "ready"
    /\ ~archive.exists

\* C18: after export_project returns, no cleaned image written by
\* inpainting is left on disk, whether the export succeeded or failed.
C18_NoCleanedImageLeft == \A f \in files : f[1] # "cleaned"

\* C19: for a page without TextBlocks inpainting is skipped: clean_image
\* returns the path of the original image and writes no file, the output of
\* the page is a copy of the source image, and the source image is not
\* deleted by the cleanup.
C19_NoBlocksReusesSource ==
    [][\A os \in [1..PageCount -> RenderOutcomes] : \A ok \in BOOLEAN :
        export_project("P1", os, ok)
        => \A p \in 1..PageCount :
            text_blocks[p] = <<>>
            => /\ clean_image(p, BlockBoxes(text_blocks[p]), os[p], files) =
                    [raised |-> FALSE, path |-> SourceImage(p), files |-> files]
               /\ CleanedImage(p) \notin files'
               /\ SourceImage(p) \in files'
               /\ OutputsOf(files', {p}) =
                    IF os[p].render THEN {OutputImage(p, "source")} ELSE {}]_vars

\* A page without blocks was exported: its output shows the source image,
\* which is still on disk, next to the typeset output of a page with blocks.
C19_Witness ==
    /\ response = Exported("P1")
    /\ \E p, q \in 1..PageCount :
        /\ text_blocks[p] = <<>>
        /\ OutputImage(p, "source") \in archive.names
        /\ SourceImage(p) \in files
        /\ OutputImage(q, "typeset") \in archive.names

\* A pixel lies inside the region bbox expanded by padding on every side:
\* the region covers the columns x .. x + w - 1 and the rows y .. y + h - 1.
InExpanded(px, bbox, padding) ==
    /\ bbox.x - padding <= px[1] /\ px[1] < bbox.x + bbox.w + padding
    /\ bbox.y - padding <= px[2] /\ px[2] < bbox.y + bbox.h + padding

\* C20: the mask has the dimensions of the image, and a pixel of it is
\* erase exactly when it lies inside at least one region expanded by the
\* padding on every side (and inside the image).
C20_MaskIsUnionOfExpandedBoxes ==
    mask.built
    => /\ mask.shape = img_shape
       /\ mask.erase =
            {px \in (0..(img_shape[2] - 1)) \X (0..(img_shape[1] - 1)) :
                \E i \in 1..Len(mask_bboxes) : InExpanded(px, mask_bboxes[i], Padding)}

\* The regions of s, each as often as it occurs in s.
BagOf(s) == [b \in {s[i] : i \in 1..Len(s)} |-> Cardinality({i \in 1..Len(s) : s[i] = b})]

\* intersection / (areaA + areaB - intersection) > 0.5, 0 when the union
\* is 0.
IouAboveHalf(a, b) ==
    LET ix == Min(a.x + a.w, b.x + b.w) - Max(a.x, b.x)
        iy == Min(a.y + a.h, b.y + b.h) - Max(a.y, b.y)
        intersection == IF ix > 0 /\ iy > 0 THEN ix * iy ELSE 0
    IN 2 * intersection > a.w * a.h + b.w * b.h - intersection

\* The detector returned what the contour fallback found.
FallbackReturned == detected.done /\ detected.by = "fallback"

Range(s) == {s[i] : i \in 1..Len(s)}

Area(b) == b.w * b.h

ResultsOf(texts) == [i \in 1..Len(texts) |-> [bbox |-> Region(i), text |-> texts[i]]]

BatchAnswered == batch.called /\ Len(batch.texts) > 2 /\ ~batch.llm.raw.raised

\* The first line of the answer tagged i, 0 when there is none.
FirstTagged(i) ==
    LET tagged == {k \in 1..Len(batch.llm.raw.lines) : batch.llm.raw.lines[k].tag = i}
    IN IF tagged = {} THEN 0 ELSE CHOOSE k \in tagged : \A j \in tagged : k <= j

\* C24 as stated: for a batch of more than 2 texts, result[i] is the text
\* tagged i + 1 in the answer when that tag is present, whatever the other
\* lines are, and the sentinel of texts[i] when the tag is absent.
C24_TaggedTextOrSentinel ==
    BatchAnswered
    => \A i \in 1..Len(batch.texts) :
        batch.result[i] = IF FirstTagged(i) # 0
                          THEN batch.llm.raw.lines[FirstTagged(i)].body
                          ELSE Sentinel(batch.texts[i])

\* C24, amended: result[i] is the text that follows the first tag i + 1 on
\* its line; when nothing follows that tag on its line, it is the whole next
\* line of the answer, tag included, or the sentinel when the tag ends the
\* answer; and the sentinel when the tag is absent.
C24_FirstTagOrNextLineOrSentinel ==
    BatchAnswered
    => LET lines == batch.llm.raw.lines IN
       \A i \in 1..Len(batch.texts) :
        LET k == FirstTagged(i) IN
        batch.result[i] =
            IF k = 0 THEN Sentinel(batch.texts[i])
            ELSE IF lines[k].body # <<>> THEN lines[k].body
            ELSE IF k < Len(lines) THEN <<"[">> \o str(lines[k + 1].tag) \o <<"]">> \o lines[k + 1].body
            ELSE Sentinel(batch.texts[i])

\* [hello, world, foo] answered with the lines tagged 1 and 3 gave
\* [translation 1, "[ERRO] world", translation 3].
C24_Witness ==
    /\ BatchAnswered
    /\ batch.texts = << <<"hello">>, <<"world">>, <<"foo">> >>
    /\ batch.llm.raw.lines = << [tag |-> 1, body |-> <<"translation", "1">>],
                                [tag |-> 3, body |-> <<"translation", "3">>] >>
    /\ batch.result = << <<"translation", "1">>, <<"[ERRO]", "world">>,
                         <<"translation", "3">> >>

\* C25: extract_text never raises: for every region, backend, source
\* language and backend failure it returns a text, the placeholder of the
\* region when the backend failed, so the OCR of the next region of the
\* page can always be made.
C25_ExtractTextNeverRaises ==
    /\ ocr_call.region > 0
        => /\ ~ocr_call.raised
           /\ ocr_call.text \in Seq({"ocr", "[text", ",", "]"} \cup Range(DigitChars))
           /\ ocr_call.text = extract_text(ocr_backend, source_language,
                                           detected.bboxes[ocr_call.region], ocr_call.o)
           /\ (ocr_call.o.first = "RAISE" /\ ocr_call.o.second = "RAISE")
                => ocr_call.text = _ocr_placeholder_sync(detected.bboxes[ocr_call.region])
    /\ (detected.done /\ ocr_call.region < Len(detected.bboxes))
        => \A o \in OcrOutcomes(_detect_backend) :
            ~ExtractText(_detect_backend, source_language,
                         detected.bboxes[ocr_call.region + 1], o).raised

\* The backend raised on the second region of a page and extract_text
\* returned the placeholder of that region.
C25_Witness ==
    /\ ocr_call.region = 2
    /\ ocr_call.o.first = "RAISE" /\ ocr_call.o.second = "RAISE"
    /\ ~ocr_call.raised
    /\ ocr_call.text = _ocr_placeholder_sync(detected.bboxes[2])
    /\ ocr_backend \in {"manga_ocr", "easyocr", "tesseract"}

\* The backend call of the last extract_text raised.
BackendFailed == ocr_call.region > 0 /\ ocr_call.o.first = "RAISE"

\* C26 as stated: when the selected backend fails at call time the call
\* falls through to the next backend of the chain: after the specialized
\* OCR model (manga_ocr) a general-purpose one is called, and after the
\* detector model the contour fallback.
C26_FailureFallsToNextBackend ==
    /\ (BackendFailed /\ ocr_backend = "manga_ocr" /\ source_language = "ja")
        => \E k \in 1..Len(ocr_call.called) : ocr_call.called[k] \in {"easyocr", "tesseract"}
    /\ (detector_model = "ctd" /\ detected.by = "fallback")
        => detected.bboxes = _detect_fallback(candidates)

\* C26, amended: a detector model that raises falls through to the contour
\* fallback, but an OCR backend that raises does not fall through to the
\* next backend: extract_text returns the placeholder text without calling
\* another backend (tesseract first retries itself once; manga_ocr with a
\* source language other than ja calls easyocr instead and the placeholder
\* when that raises); neither operation fails.
C26_FailureFallsToPlaceholder ==
    [][/\ \A o \in OcrOutcomes(_detect_backend) :
            (extract_next(o) /\ o.first = "RAISE")
            => LET bbox == detected.bboxes[ocr_call'.region] IN
               /\ ~ocr_call'.raised
               /\ ocr_call'.called =
                    IF _detect_backend = "tesseract" THEN <<"tesseract", "tesseract">>
                    ELSE IF _detect_backend = "manga_ocr" /\ source_language # "ja"
                    THEN <<"easyocr", "placeholder">>
                    ELSE <<_detect_backend>>
               /\ ocr_call'.text =
                    IF _detect_backend = "tesseract" /\ o.second = "TEXT"
                    THEN RegionText(bbox)
                    ELSE IF _detect_backend = "tesseract" /\ o.second = "EMPTY"
                    THEN <<>>
                    ELSE _ocr_placeholder_sync(bbox)
       /\ \A installed \in LoadOutcomes : \A o \in DetectCalls :
            (_detect_sync(installed, o) /\ detector_model' = "ctd"
                /\ o.image /\ o.model = "RAISE")
            => detected' = IF o.contours = "RAISE" THEN Raised
                           ELSE Returned("fallback", _detect_fallback(candidates))]_vars

\* The detector model raised and the contour fallback returned a region;
\* manga_ocr raised on it and extract_text returned the placeholder, no
\* other backend being called.
C26_Witness ==
    /\ detector_model = "ctd" /\ detected.by = "fallback"
    /\ BackendFailed
    /\ ocr_backend = "manga_ocr" /\ source_language = "ja"
    /\ ocr_call.called = <<"manga_ocr">>
    /\ ocr_call.text = _ocr_placeholder_sync(detected.bboxes[ocr_call.region])

\* C28: the regions the pipeline passes to OCR for a page were deduplicated
\* and ordered by the region merger, whichever detector backend produced
\* them: no two regions OCR'd for one page have IOU greater than 0.5.
C28_OcrRegionsAreMerged ==
    ocr_call.region > 0
    => /\ detected.bboxes = _detect_fallback(candidates)
       /\ \A i, j \in 1..ocr_call.region :
            i # j => ~IouAboveHalf(detected.bboxes[i], detected.bboxes[j])

\* The list is ordered by descending column index x div width and, within
\* one column, by ascending y.
BandOrdered(bboxes, width) ==
    \A i, j \in 1..Len(bboxes) :
        i < j => \/ bboxes[i].x \div width > bboxes[j].x \div width
                 \/ /\ bboxes[i].x \div width = bboxes[j].x \div width
                    /\ bboxes[i].y <= bboxes[j].y

\* The lists that hold the same regions as often, in any order.
Reordered(bboxes) == {other \in CandidateLists : BagOf(other) = BagOf(bboxes)}

\* C29: the output of the merger is in reading order: for some fixed band
\* width of two pixels or more the regions are ordered by descending column
\* index (x divided by the width) and, within a column, by ascending y; and
\* the output is the same for every order of the same input regions.
C29_BandedReadingOrder ==
    FallbackReturned
    => /\ \E width \in 2..MaxBandWidth : BandOrdered(detected.bboxes, width)
       /\ \A other \in Reordered(candidates) :
            _detect_fallback(other) = detected.bboxes

\* The run t is inside the loop over the pages, at one of them.
AtPage(t) == task[t].pc \in {"page", "detect", "translate"}

\* C30: the pages of a run are processed one after another in ascending
\* page_number: the run moves from page k to page k + 1 only, after page k
\* has committed its final status (done or translated); it commits a page
\* status or text blocks only for the page it is at; it starts a page only
\* by moving on to it, so no page is processed twice in one run.
C30_PagesInAscendingOrder ==
    [][\A t \in Tasks :
         /\ (task'[t].pc # "finished" /\ task[t].pc # "idle")
              => task'[t].page \in {task[t].page, task[t].page + 1}
         /\ (task'[t].page = task[t].page + 1 /\ task[t].pc # "idle")
              => /\ \A p \in 1..task[t].page :
                      task'[t].pages[p] \in {"done", "translated"}
                 /\ task[t].page \in Pages
                      => AtPage(t) /\ page_status'[task[t].page] \in {"done", "translated"}
                 /\ task'[t].pc = "page" <=> task'[t].page \in Pages
         /\ (task'[t].pc = "page" /\ task'[t] # task[t])
              => task'[t].page = task[t].page + 1
         /\ \A p \in Pages :
              (AtPage(t) /\ task'[t].pc # "finished"
                 /\ task'[t].pages[p] # task[t].pages[p])
                 => p = task[t].page
         /\ \A p \in Pages :
              (page_status'[p] # page_status[p] \/ text_blocks'[p] # text_blocks[p])
                 => \E u \in Tasks : AtPage(u) /\ task[u].page = p
                                     /\ task'[u] # task[u]]_vars

\* A run has committed the final status of page 1 and is working on page 2,
\* which it has marked as processing.
C30_Witness ==
    \E t \in Tasks :
        /\ task[t].pc = "detect"
        /\ task[t].page = 2
        /\ task[t].pages[1] \in {"done", "translated"}
        /\ task[t].pages[2] = "processing"

\* ------------------------------------------------------------ typesetting
\* The characters of a text: one that is not white space, and the space.
LayoutChars == {"a", " "}

LayoutTexts == UNION {[1..n -> LayoutChars] : n \in 0..MaxChars}

\* chunk.strip() == ''
Blank(chunk) == \A i \in 1..Len(chunk) : chunk[i] = " "

\* ''.join(cur_line)
RECURSIVE Join(_)
Join(cur_line) ==
    IF cur_line = <<>> THEN <<>> ELSE Head(cur_line) \o Join(Tail(cur_line))

\* textwrap.TextWrapper._split_chunks on a text without hyphens: the
\* maximal runs of white space and of other characters.
RECURSIVE _split_chunks(_)
_split_chunks(text) ==
    IF text = <<>> THEN <<>>
    ELSE LET n == CHOOSE k \in 1..Len(text) :
                    /\ \A i \in 1..k : (text[i] = " ") = (text[1] = " ")
                    /\ k < Len(text) => (text[k + 1] = " ") # (text[1] = " ")
         IN <<SubSeq(text, 1, n)>> \o _split_chunks(SubSeq(text, n + 1, Len(text)))

\* The inner loop of TextWrapper._wrap_chunks: chunks are taken while they
\* fit the width.
RECURSIVE Fill(_, _, _)
Fill(chunks, cur_line, width) ==
    IF chunks # <<>> /\ Len(Join(cur_line)) + Len(Head(chunks)) <= width
    THEN Fill(Tail(chunks), Append(cur_line, Head(chunks)), width)
    ELSE [cur_line |-> cur_line, chunks |-> chunks]

\* TextWrapper._handle_long_word with break_long_words: the part of the
\* chunk that fits the space left goes on the line.
_handle_long_word(filled, width) ==
    LET space_left == IF width < 1 THEN 1 ELSE width - Len(Join(filled.cur_line))
        chunk == Head(filled.chunks)
    IN [cur_line |-> Append(filled.cur_line, SubSeq(chunk, 1, space_left)),
        chunks |-> <<SubSeq(chunk, space_left + 1, Len(chunk))>> \o Tail(filled.chunks)]

\* TextWrapper._wrap_chunks with drop_whitespace and no indent.
RECURSIVE _wrap_chunks(_, _, _)
_wrap_chunks(chunks, width, lines) ==
    IF chunks = <<>> THEN lines
    ELSE LET rest == IF Blank(Head(chunks)) /\ lines # <<>> THEN Tail(chunks) ELSE chunks
             filled == Fill(rest, <<>>, width)
             broken == IF filled.chunks # <<>> /\ Len(Head(filled.chunks)) > width
                       THEN _handle_long_word(filled, width)
                       ELSE filled
             n == Len(broken.cur_line)
             cur_line == IF n > 0 /\ Blank(broken.cur_line[n])
                         THEN SubSeq(broken.cur_line, 1, n - 1)
                         ELSE broken.cur_line
         IN _wrap_chunks(broken.chunks, width,
                         IF cur_line # <<>> THEN Append(lines, Join(cur_line)) ELSE lines)

\* TextWrapper(width=width).wrap(text)
TextWrapper_wrap(text, width) == _wrap_chunks(_split_chunks(text), width, <<>>)

\* What draw.textlength gives with a font, in halves of the font size per
\* character: cjk for the sample "あいうえ", latin for the characters of
\* the text.  The third font has no wide glyph for the sample.
FontMetrics == {[cjk |-> 2, latin |-> 1], [cjk |-> 2, latin |-> 2],
                [cjk |-> 1, latin |-> 2]}

\* box_width and box_height of a block, among them a box narrower and
\* lower than the padding of 8.
BoxWidths == {4, 30, 48, 100}
BoxHeights == {6, 30, 60, 200}

\* font_size of a block: the default and a size above max_size.
RequestedSizes == {18, 60}

\* Lines 64-65: chars_per_line = max(1, int(max_width / avg_char_w)) with
\* avg_char_w = max(1, textlength("あいうえ") / 4) = size * cjk / 2.
chars_per_line(font, size, max_width) ==
    IF max_width <= 0 THEN 1
    ELSE Max(1, (2 * max_width) \div (size * font.cjk))

\* The sizes a font is made in: those of the loop of _auto_font_size and
\* the sizes of the blocks.
FontSizes == 10..48 \cup RequestedSizes

\* The widths a text is wrapped at.
AttemptWidths ==
    UNION {1..chars_per_line(font, size, box_width - 8) :
             font \in FontMetrics, size \in FontSizes, box_width \in BoxWidths}

\* The wraps of the texts laid out, tabulated (@@ gives the function as a
\* table, so that a wrap is computed once and not at every use).
Wraps ==
    [text \in LayoutTexts, width \in AttemptWidths |-> TextWrapper_wrap(text, width)] @@ <<>>

\* textwrap.wrap(text, width=width)
textwrap_wrap(text, width) == Wraps[text, width]

\* A mutant of WidestFits: a line may be as wide as the box, padding
\* included.
WidestFits_no_padding(lines, font, size, max_width) ==
    \A i \in 1..Len(lines) : Len(lines[i]) * size * font.latin <= 2 * (max_width + 8)

\* Lines 73-75: widest = max(textlength(line)); widest <= max_width.
WidestFits(lines, font, size, max_width) ==
    \A i \in 1..Len(lines) : Len(lines[i]) * size * font.latin <= 2 * max_width

\* Line 78: textwrap.wrap(text, width=1) or [text]
Narrowest(text) ==
    IF textwrap_wrap(text, 1) = <<>> THEN <<text>> ELSE textwrap_wrap(text, 1)

\* A mutant of HeightFits: the height is measured without the line spacing.
HeightFits_no_spacing(lines, size, box_height) == size * Len(lines) <= box_height - 8

\* A mutant of NextAttemptWidth: the budget is not lowered.
NextAttemptWidth_same(attempt_width) == attempt_width

\* Line 68: range(chars_per_line, 0, -1) gives the next attempt_width.
NextAttemptWidth(attempt_width) == attempt_width - 1

\* Lines 103-105: line_height = font.size + 4; total_height <= box_height - 8.
HeightFits(lines, size, box_height) == (size + 4) * Len(lines) <= box_height - 8

\* The layout of one block about to start.
LayoutOf(entry, text, box_width, box_height, font, font_size) ==
    [pc |-> entry, entry |-> entry, text |-> text, box_width |-> box_width,
     box_height |-> box_height, font |-> font, font_size |-> font_size,
     auto |-> FALSE, size |-> 0, attempt_width |-> 0, lines |-> <<>>,
     best_size |-> 0, best_lines |-> <<>>]

\* _wrap_text is entered for the size: lines 60-65, or an empty list for
\* an empty text.
EnterWrap(l, size) ==
    IF l.text = <<>>
    THEN [l EXCEPT !.pc = "wrapped", !.size = size, !.lines = <<>>]
    ELSE [l EXCEPT !.pc = "wrap", !.size = size,
                   !.attempt_width = chars_per_line(l.font, size, l.box_width - 8)]

\* The for loop of _auto_font_size takes the size, or ends (line 114).
EnterSize(l, size) ==
    IF size < 10
    THEN [l EXCEPT !.pc = "done", !.size = l.best_size, !.lines = l.best_lines]
    ELSE EnterWrap(l, size)

\* A block reaches the layout: in _render_sync (lines 140-154, entry
\* "render"), or _auto_font_size is called with its text and box (entry
\* "auto").
layout_block(entry, text, box_width, box_height, font, font_size) ==
    /\ layout.pc = "idle"
    /\ layout' = LayoutOf(entry, text, box_width, box_height, font, font_size)

\* _render_sync, lines 141-158: a block without text is skipped; the text
\* of the others is wrapped at the font size of the block.
render_block ==
    /\ layout.pc = "render"
    /\ layout' = IF Blank(layout.text) THEN [layout EXCEPT !.pc = "skipped"]
                 ELSE EnterWrap(layout, layout.font_size)

\* _auto_font_size, lines 94-97: best_font of min_size, best_lines = [text],
\* and the loop starts at max_size.
auto_font_size ==
    /\ layout.pc = "auto"
    /\ layout' = EnterSize([layout EXCEPT !.auto = TRUE, !.best_size = 10,
                                          !.best_lines = <<layout.text>>], 48)

\* One pass of the loop of _wrap_text, lines 68-78.
wrap_attempt ==
    LET lines == textwrap_wrap(layout.text, layout.attempt_width)
        max_width == layout.box_width - 8
        next == NextAttemptWidth(layout.attempt_width)
    IN
    /\ layout.pc = "wrap"
    /\ layout' =
         IF lines = <<>>
         THEN [layout EXCEPT !.pc = "wrapped", !.lines = Narrowest(layout.text)]
         ELSE IF WidestFits(lines, layout.font, layout.size, max_width)
         THEN [layout EXCEPT !.pc = "wrapped", !.lines = lines]
         ELSE IF next > 0
         THEN [layout EXCEPT !.attempt_width = next]
         ELSE [layout EXCEPT !.pc = "wrapped", !.lines = Narrowest(layout.text)]

\* After _wrap_text returned: _render_sync, lines 160-167, keeps the wrap
\* or calls _auto_font_size; _auto_font_size, lines 100-111, returns the
\* wrap, or keeps it as the best and goes on with the next size.
height_check ==
    /\ layout.pc = "wrapped"
    /\ layout' =
         IF ~layout.auto
         THEN IF HeightFits(layout.lines, layout.size, layout.box_height)
              THEN [layout EXCEPT !.pc = "done"]
              ELSE [layout EXCEPT !.pc = "auto"]
         ELSE IF layout.lines = <<>>
         THEN EnterSize(layout, layout.size - 1)
         ELSE IF HeightFits(layout.lines, layout.size, layout.box_height)
         THEN [layout EXCEPT !.pc = "done"]
         ELSE EnterSize([layout EXCEPT !.best_size = layout.size,
                                       !.best_lines = layout.lines],
                        layout.size - 1)

\* One step of the layout of the block that arrived.
LayoutStep ==
    \/ render_block
    \/ auto_font_size
    \/ wrap_attempt
    \/ height_check

InitLayout ==
    /\ project_status = [id \in ProjectIds |-> IF id = "P1" THEN "ready" ELSE Absent]
    /\ page_status = [p \in Pages |-> "translated"]
    /\ text_blocks = [p \in Pages |-> <<>>]
    /\ source_language = "ja"
    /\ available = "manga_ocr"
    /\ ocr_backend = "None"
    /\ task = [t \in Tasks |-> NoTask]
    /\ response = NoResponse
    /\ files = {SourceImage(p) : p \in Pages}
    /\ archive = NoArchive
    /\ NoMasking
    /\ NoDetection
    /\ ocr_call = NoOcrCall
    /\ batch = NoBatch
    /\ NoApart
    /\ layout = NoLayout

NextLayout ==
    /\ \/ /\ layout.pc = "idle"
          /\ \E text \in LayoutTexts, box_width \in BoxWidths, box_height \in BoxHeights,
                font \in FontMetrics :
                \/ \E font_size \in RequestedSizes :
                      layout_block("render", text, box_width, box_height, font, font_size)
                \/ layout_block("auto", text, box_width, box_height, font, 18)
       \/ LayoutStep
    /\ UNCHANGED <<db, task, ocr_backend, available, response, disk,
                   masking, detection, ocr_call, batch,
                   apart>>

SpecLayout == InitLayout /\ [][NextLayout]_vars

\* The synchronous code of the layout, once entered, runs on: nothing else
\* is scheduled in its thread before it returns.
FairLayout == SpecLayout /\ WF_layout(LayoutStep)

\* The layout engine is at work: _auto_font_size or _wrap_text was entered
\* and has not returned to the caller of the engine.
InEngine == layout.pc \in {"auto", "wrap", "wrapped"}

\* C27: for any box and any non-empty string the layout engine terminates
\* and returns at least one line: _wrap_text returns at least one line, and
\* a call of the engine leads to its return with at least one line, also
\* when the box is narrower than the padding or no size and wrap fits.
C27_LayoutTerminatesWithALine ==
    /\ []((layout.pc = "wrapped" /\ layout.text # <<>>) => Len(layout.lines) >= 1)
    /\ (InEngine /\ layout.text # <<>>)
           ~> (layout.pc = "done" /\ Len(layout.lines) >= 1)

\* The engine has returned for a box narrower and lower than the padding,
\* in which nothing fits, with the wrap of the smallest size.
C27_Witness ==
    /\ layout.pc = "done"
    /\ layout.auto
    /\ layout.text # <<>>
    /\ layout.box_width < 8
    /\ ~HeightFits(layout.lines, layout.size, layout.box_height)
    /\ layout.size = 10
    /\ Len(layout.lines) >= 1

\* The texts of the batch that are not empty, in their order.
NonBlank(texts) == SelectSeq(texts, LAMBDA t : t # <<>>)

thread_start(w) ==
    /\ threads.pc[w] = "idle"
    /\ threads' = [threads EXCEPT !.pc[w] = "check"]
    /\ UNCHANGED detector_model

\* _load_model, lines 32-33: if self._model is not None: return.
thread_check(w) ==
    /\ threads.pc[w] = "check"
    /\ threads' = [threads EXCEPT !.pc[w] = IF detector_model # "None" THEN "detect"
                                            ELSE "load"]
    /\ UNCHANGED detector_model

\* Lines 36-42 and 44-49: the import and the construction of CTDModel,
\* which end with the model, with an ImportError (the fallback is taken) or
\* with another exception, which leaves _detect_sync.
thread_load(w, installed) ==
    /\ threads.pc[w] = "load"
    /\ threads' = [threads EXCEPT
                     !.pc[w] = IF installed = "RAISE" THEN "idle" ELSE "assign",
                     !.held[w] = IF installed = "RAISE" THEN "None" ELSE installed,
                     !.loads = IF installed = "ctd" THEN @ + 1 ELSE @]
    /\ UNCHANGED detector_model

\* Lines 39 and 49: self._model = ...
thread_assign(w) ==
    /\ threads.pc[w] = "assign"
    /\ detector_model' = threads.held[w]
    /\ threads' = [threads EXCEPT !.pc[w] = "detect", !.held[w] = "None"]

\* Lines 58-101: the detection itself; the thread is given back.
thread_detect(w) ==
    /\ threads.pc[w] = "detect"
    /\ threads' = [threads EXCEPT !.pc[w] = "idle"]
    /\ UNCHANGED detector_model

\* The process has just started: nothing is loaded.
InitLoad ==
    /\ Init
    /\ detector_model = "None"

NextLoad ==
    /\ \E w \in WorkerThreads :
         \/ thread_start(w)
         \/ thread_check(w)
         \/ \E installed \in LoadOutcomes : thread_load(w, installed)
         \/ thread_assign(w)
         \/ thread_detect(w)
    /\ UNCHANGED <<db, task, ocr_backend, available, response, disk, masking,
                   candidates, detected, ocr_call, layout, batch, exports>>

SpecLoad == InitLoad /\ [][NextLoad]_vars

\* C32: the model of a provider is initialized at most once in the life of
\* the process, also when the provider is called from several worker
\* threads at once.
C32_ModelInitializedOnce == threads.loads <= 1

\* Every line of the wrap, measured with the font at the size, is at most
\* as wide as the box less 4 pixels on each side.
LinesFitWidth(l, size, lines) ==
    \A i \in 1..Len(lines) :
        Len(lines[i]) * size * l.font.latin <= 2 * (l.box_width - 8)

\* The character budgets at which the text wraps into lines that all fit
\* the inner width, among the budgets from the estimate down to 1.
FittingBudgets(l, size) ==
    {width \in 1..chars_per_line(l.font, size, l.box_width - 8) :
        /\ Wraps[l.text, width] # <<>>
        /\ LinesFitWidth(l, size, Wraps[l.text, width])}

\* The wrap of the text at the size: at the largest budget that fits, and
\* at a budget of one character when none fits.
WrapAt(l, size) ==
    IF FittingBudgets(l, size) = {} THEN Wraps[l.text, 1]
    ELSE Wraps[l.text, CHOOSE width \in FittingBudgets(l, size) :
                          \A other \in FittingBudgets(l, size) : other <= width]

\* The wrap of the text at the size is at most as high as the box less 4
\* pixels above and below, a line being size + 4 high.
FitsHeight(l, size) == Len(WrapAt(l, size)) * (size + 4) <= l.box_height - 8

\* C33: auto-fit of a text that is not blank.  In _render_sync, when the
\* text wrapped at the font size of the block fits the inner height, that
\* size and wrap are used; otherwise, and in every call of _auto_font_size,
\* the result is the largest size from 48 down to 10 whose wrap fits the
\* inner height, with that wrap, and size 10 with its wrap when none fits.
C33_AutoFit ==
    (layout.pc = "done" /\ ~Blank(layout.text))
    => LET fitting == {size \in 10..48 : FitsHeight(layout, size)}
           largest == CHOOSE size \in fitting : \A other \in fitting : other <= size
       IN
       /\ (layout.entry = "render" /\ FitsHeight(layout, layout.font_size))
            => /\ ~layout.auto
               /\ layout.size = layout.font_size
               /\ layout.lines = WrapAt(layout, layout.font_size)
       /\ (layout.entry = "auto" \/ ~FitsHeight(layout, layout.font_size))
            => /\ layout.auto
               /\ layout.size = (IF fitting = {} THEN 10 ELSE largest)
               /\ layout.lines = WrapAt(layout, layout.size)

\* A block whose text did not fit at its font size was given a smaller
\* size, above the minimum, at which it fits.
C33_Witness ==
    /\ layout.pc = "done"
    /\ layout.entry = "render"
    /\ layout.auto
    /\ layout.size > 10
    /\ layout.size < layout.font_size
    /\ Len(layout.lines) * (layout.size + 4) <= layout.box_height - 8

PastProcessingCommit(t) == task[t].pc \in PagePcs \cup {"ready"}

\* C35: while a run of a project is between its "processing" commit and
\* its final "ready"/"error" commit, the status of the project is
\* "processing", whatever other requests (exports, starts) interleave.
C35_StatusStaysProcessing ==
    \A t \in Tasks :
        PastProcessingCommit(t) => project_status[task[t].project_id] = "processing"

\* --------------------------------------------------------- the end of a run
\* The pipeline router alone: starts of P1 and the steps of the runs they
\* queue.
NextEnd ==
    /\ \/ start_pipeline("P1")
       \/ \E t \in Tasks : process_project_task(t, SmallEnv)
    /\ UNCHANGED <<disk, aside>>

\* A step of the run t.
RunStep(t) == process_project_task(t, SmallEnv) /\ UNCHANGED <<disk, aside>>

SpecEnd == Init /\ [][NextEnd]_vars

\* The event loop resumes a queued background task and every await of it
\* returns: a run that can take a step takes it.
FairEnd == SpecEnd /\ \A t \in Tasks : WF_vars(RunStep(t))

\* The run t has ended with its final commit in place.
EndedReadyOrError(t) ==
    /\ task[t].pc = "finished"
    /\ project_status[task[t].project_id] \in {"ready", "error"}

\* C36: every run queued for the existing project P1 ends, and in the state
\* it ends in Project.status is "ready" or "error" (so a later start is
\* accepted).
C36_RunEndsReadyOrError ==
    \A t \in Tasks : (task[t].pc = "queued") ~> EndedReadyOrError(t)

\* The pages of the project whose committed status is an in-flight one.
PagesInFlight == {p \in Pages : page_status[p] \in {"processing", "ocr_done"}}

\* C37: in every reachable state at most one page of the project has an
\* in-flight status ("processing" or "ocr_done"), whatever runs, aborted
\* runs and re-runs came before.
C37_OnePageInFlight == Cardinality(PagesInFlight) <= 1

\* The blocks a step appends to page p.
Appended(p) == SubSeq(text_blocks'[p], Len(text_blocks[p]) + 1, Len(text_blocks'[p]))

\* The step is the commit by which the run t puts page p in "translated".
PutsTranslated(t, p) ==
    /\ task[t].pc = "translate"
    /\ task[t].page = p
    /\ task'[t].pages[p] = "translated"

\* C38: the TextBlocks of a page and its "translated" status become
\* visible in one commit: a commit by which a run puts a page in
\* "processing", "ocr_done" or "done", and any other step, leaves the
\* blocks of every page as they are; the commit by which a run puts a page
\* in "translated" writes that status and appends all the blocks of the
\* run for the page, one per OCR result, and touches no other page.
C38_BlocksWithTranslated ==
    [][\A p \in Pages :
         /\ text_blocks'[p] # text_blocks[p]
              => /\ \E t \in Tasks : PutsTranslated(t, p)
                 /\ page_status'[p] = "translated"
         /\ \A t \in Tasks : PutsTranslated(t, p)
              => /\ page_status'[p] = "translated"
                 /\ text_blocks'[p] = text_blocks[p] \o Appended(p)
                 /\ Len(Appended(p)) = Len(task[t].ocr_results)
                 /\ Len(Appended(p)) > 0
                 /\ \A i \in 1..Len(Appended(p)) :
                        Appended(p)[i].text_original = task[t].ocr_results[i].text]_vars

\* C38 witness: a run has put a page in "translated" and gone on, and the
\* page has blocks.
C38_Witness ==
    \E t \in Tasks : \E p \in Pages :
        /\ task[t].pc \in PagePcs \cup {"ready"}
        /\ task[t].page > p
        /\ task[t].pages[p] = "translated"
        /\ page_status[p] = "translated"
        /\ text_blocks[p] # <<>>

\* ------------------------------------------------- exports, by file name
\* Inpainter._inpaint_sync, lines 94-95: f"{src.stem}_cleaned{src.suffix}".
cleaned_name(n) == <<n[1], n[2] + 1>>

\* _render_page for page k without text blocks: clean_image returns the
\* image path itself and shutil.copy2 copies it to the export directory
\* (it raises when the image is missing, and the page is skipped).
render_plain(e, c, k) ==
    IF e.dir[e.names[k]] = Missing THEN e
    ELSE [e EXCEPT !.out = @ \cup {k}, !.call[c].rendered = @ \cup {k}]

\* export_project, lines 83-106: the files of the export directory are
\* listed and written to the ZIP; none at all is a 500.
package(e, c) ==
    IF e.out = {}
    THEN [e EXCEPT !.call[c].pc = "done"]
    ELSE [e EXCEPT !.zip = [exists |-> TRUE, names |-> e.out],
                   !.call[c].pc = "flush"]

\* The loop of export_project from page k on, up to its next await that
\* suspends: pages without blocks are rendered at once, a page with blocks
\* hands the inpainting to a worker thread.
RECURSIVE render_from(_, _, _)
render_from(e, c, k) ==
    IF k > NumPages THEN package(e, c)
    ELSE IF e.blocks[k]
    THEN [e EXCEPT !.call[c].pc = "inpaint", !.call[c].page = k]
    ELSE render_from(render_plain(e, c, k), c, k + 1)

\* GET /export/projects/P1/export arrives: the handler awaits the load.
export_begin(c) ==
    /\ exports.call[c].pc \in {"idle", "done"}
    /\ exports' = [exports EXCEPT !.call[c] = [NoCall EXCEPT !.pc = "load"]]

\* Lines 65-80: the load has returned; the export directory is removed and
\* created again, and the loop over the pages begins.
export_load(c) ==
    /\ exports.call[c].pc = "load"
    /\ exports' = render_from([exports EXCEPT !.out = {}], c, 1)

\* Inpainter._inpaint_sync in its worker thread, and the resumption of
\* _render_page: the image is read (a missing one raises, the page is
\* skipped) and the cleaned image is written next to it.
inpaint(c) ==
    LET k == exports.call[c].page
        src == exports.names[k]
    IN
    /\ exports.call[c].pc = "inpaint"
    /\ exports' =
        IF exports.dir[src] = Missing
        THEN render_from(exports, c, k + 1)
        ELSE [exports EXCEPT !.dir[cleaned_name(src)] = Inpainted(k),
                             !.call[c].pc = "typeset"]

\* Typesetter._render_sync in its worker thread, and the rest of
\* _render_page: the cleaned image is opened (a missing one raises, the
\* page is skipped), the output is saved in the export directory, the
\* cleaned image is removed, and the loop goes on.
typeset(c) ==
    LET k == exports.call[c].page
        cleaned_path == cleaned_name(exports.names[k])
    IN
    /\ exports.call[c].pc = "typeset"
    /\ exports' =
        IF exports.dir[cleaned_path] = Missing
        THEN render_from(exports, c, k + 1)
        ELSE render_from([exports EXCEPT !.out = @ \cup {k},
                                         !.call[c].rendered = @ \cup {k},
                                         !.dir[cleaned_path] = Missing],
                         c, k + 1)

\* Lines 105-115: the flush has returned; the FileResponse sends the ZIP
\* file that is at zip_path now.
export_respond(c) ==
    /\ exports.call[c].pc = "flush"
    /\ exports' = [exports EXCEPT !.call[c].pc = "done",
                                  !.call[c].archive = exports.zip]

\* A project as an upload leaves it: pages of different names, with or
\* without text blocks.
InitNamed ==
    /\ project_status = [id \in ProjectIds |-> IF id = "P1" THEN "ready" ELSE Absent]
    /\ page_status = [p \in Pages |-> "translated"]
    /\ text_blocks = [p \in Pages |-> <<>>]
    /\ source_language = "ja"
    /\ available = "manga_ocr"
    /\ ocr_backend = "None"
    /\ task = [t \in Tasks |-> NoTask]
    /\ response = NoResponse
    /\ files = {SourceImage(p) : p \in Pages}
    /\ archive = NoArchive
    /\ NoMasking
    /\ NoDetection
    /\ ocr_call = NoOcrCall
    /\ batch = NoBatch
    /\ layout = NoLayout
    /\ threads = NoThreads
    /\ \E names \in [Pages -> PageNames] : \E has_blocks \in [Pages -> BOOLEAN] :
        /\ \A p, q \in Pages : names[p] = names[q] => p = q
        /\ exports = Project(names, has_blocks)

NextNamed ==
    /\ \E c \in Callers :
         \/ export_begin(c)
         \/ export_load(c)
         \/ inpaint(c)
         \/ typeset(c)
         \/ export_respond(c)
    /\ UNCHANGED <<db, task, ocr_backend, available, response, disk, masking,
                   detection, ocr_call, layout, batch, threads>>

SpecNamed == InitNamed /\ [][NextNamed]_vars

\* C39: after any export, the source image of every page is in the project
\* directory with the content that was uploaded, whatever the pages are
\* named.
C39_SourcesUntouched ==
    \A p \in Pages : exports.dir[exports.names[p]] = Source(p)

\* C40: the archive a call of export_project returns holds exactly the
\* pages that call rendered, also when another export of the project runs
\* at the same time.
C40_ArchiveIsWhatWasRendered ==
    \A c \in Callers :
        (exports.call[c].pc = "done" /\ exports.call[c].archive.exists)
            => exports.call[c].archive.names = exports.call[c].rendered

====
